---- MODULE Spec2Model ----
(***************************************************************************)
(* mertex.md: the math protection engine (MathProtector), the shared       *)
(* currency classifier (looksLikeCurrency) and the streaming               *)
(* deduplication tracker (StreamingMathRenderer).                          *)
(*                                                                         *)
(* A text is a sequence of characters; a character is a one-character      *)
(* string.  Positions are 0-based, as in the JavaScript source.            *)
(***************************************************************************)
EXTENDS Integers, Sequences, FiniteSets, TLC

(***************************************************************************)
(* Bounds of the model.                                                    *)
(***************************************************************************)
\* protect is called only while the span counter is below this value
MaxCounter == 2
\* processChunk is called at most this many times per streaming session
MaxChunks == 2
\* the contents handed to looksLikeCurrency are made of at most this many parts
MaxParts == 3
\* appendContent and setContent are called at most this many times between
\* two reset() calls of a StreamRenderer
MaxStreamCalls == 2
\* one delimiter's scan loop is followed for at most this many iterations
MaxScanSteps == 40

(***************************************************************************)
(* Characters.                                                             *)
(***************************************************************************)
Chars(s) == [i \in 1..Len(s) |-> SubSeq(s, i, i)]

\* the grave accent (inline-code fence); it cannot be written in a string
Backtick == "BACKTICK"

\* the printable ASCII characters, code 32 to 126
Ascii ==
    Chars(" !\"#$%&'()*+,-./0123456789:;<=>?@ABCDEFGHIJKLMNOPQRSTUVWXYZ[\\]^_")
    \o <<Backtick>> \o Chars("abcdefghijklmnopqrstuvwxyz{|}~")

\* String.prototype.charCodeAt for one character
CharCode(c) ==
    IF c = "\n" THEN 10
    ELSE IF c = "\r" THEN 13
    ELSE IF c = "\t" THEN 9
    ELSE 31 + (CHOOSE i \in 1..Len(Ascii) : Ascii[i] = c)

\* String.fromCharCode for one code
FromCharCode(n) ==
    IF n = 10 THEN "\n"
    ELSE IF n = 13 THEN "\r"
    ELSE IF n = 9 THEN "\t"
    ELSE Ascii[n - 31]

DigitChars == {"0", "1", "2", "3", "4", "5", "6", "7", "8", "9"}
LowerChars == {Ascii[i] : i \in 66..91}
UpperChars == {Ascii[i] : i \in 34..59}
LetterChars == LowerChars \cup UpperChars
\* the regular-expression class \w
WordChars == LetterChars \cup DigitChars \cup {"_"}
\* the regular-expression class \s, restricted to ASCII
SpaceChars == {" ", "\n", "\r", "\t"}
\* the characters the regular-expression dot does not match
LineTerminators == {"\n", "\r"}

\* String.prototype.toLowerCase for one character
ToLowerChar(c) == IF c \in UpperChars THEN FromCharCode(CharCode(c) + 32) ELSE c
ToLower(s) == [i \in 1..Len(s) |-> ToLowerChar(s[i])]

(***************************************************************************)
(* JavaScript string operations.                                           *)
(***************************************************************************)
Min(S) == CHOOSE x \in S : \A y \in S : x <= y
Max(S) == CHOOSE x \in S : \A y \in S : x >= y
Clamp(i, n) == IF i < 0 THEN 0 ELSE IF i > n THEN n ELSE i

\* s.substring(a, b)
Substring(s, a, b) ==
    LET ca == Clamp(a, Len(s))
        cb == Clamp(b, Len(s))
    IN  IF ca <= cb THEN SubSeq(s, ca + 1, cb) ELSE SubSeq(s, cb + 1, ca)

\* s.substring(a)
SubstringFrom(s, a) == Substring(s, a, Len(s))

\* s.indexOf(pat, from), -1 when absent
IndexOf(s, pat, from) ==
    LET f == Clamp(from, Len(s))
        hits == {i \in f..(Len(s) - Len(pat)) : SubSeq(s, i + 1, i + Len(pat)) = pat}
    IN  IF hits = {} THEN -1 ELSE Min(hits)

\* s.includes(pat)
Includes(s, pat) == IndexOf(s, pat, 0) # -1

\* s.replace(sep, rep) with a string pattern: the first occurrence only
ReplaceFirst(s, sep, rep) ==
    LET p == IndexOf(s, sep, 0)
    IN  IF p = -1 THEN s
        ELSE Substring(s, 0, p) \o rep \o SubstringFrom(s, p + Len(sep))

\* s.split(sep).join(rep), sep not empty
RECURSIVE SplitJoin(_, _, _)
SplitJoin(s, sep, rep) ==
    LET p == IndexOf(s, sep, 0)
    IN  IF p = -1 THEN s
        ELSE Substring(s, 0, p) \o rep \o SplitJoin(SubstringFrom(s, p + Len(sep)), sep, rep)

\* s.trim() === ''
IsBlank(s) == \A i \in 1..Len(s) : s[i] \in SpaceChars

\* s.trim()
Trim(s) ==
    IF IsBlank(s) THEN <<>>
    ELSE LET keep == {i \in 1..Len(s) : s[i] \notin SpaceChars}
         IN  SubSeq(s, Min(keep), Max(keep))

\* String(n) for a non-negative integer
RECURSIVE NumStr(_)
NumStr(n) ==
    IF n < 10 THEN <<Ascii[17 + n]>>
    ELSE NumStr(n \div 10) \o <<Ascii[17 + (n % 10)]>>

\* a < b in the order of Array.prototype.sort() without a comparator
\* (code unit by code unit, a proper prefix first)
RECURSIVE LexLess(_, _)
LexLess(a, b) ==
    IF b = <<>> THEN FALSE
    ELSE IF a = <<>> THEN TRUE
    ELSE IF a[1] = b[1] THEN LexLess(Tail(a), Tail(b))
    ELSE CharCode(a[1]) < CharCode(b[1])

\* arr.sort(), arr a sequence of distinct texts
SortTexts(arr) ==
    LET rank(i) == Cardinality({j \in 1..Len(arr) : LexLess(arr[j], arr[i])})
    IN  [k \in 1..Len(arr) |-> arr[CHOOSE i \in 1..Len(arr) : rank(i) = k - 1]]

\* arr.reverse()
Reverse(arr) == [i \in 1..Len(arr) |-> arr[Len(arr) + 1 - i]]

(***************************************************************************)
(* Regular expressions.  A pattern is a record; Ends(re, s, P) is the set  *)
(* of positions at which a match of re that starts at a position of P can  *)
(* end.                                                                    *)
(***************************************************************************)
RSet(S) == [t |-> "set", chars |-> S]
RNot(S) == [t |-> "not", chars |-> S]
RCat(rs) == [t |-> "cat", rs |-> rs]
RAlt(rs) == [t |-> "alt", rs |-> rs]
ROpt(r) == [t |-> "opt", r |-> r]
RStar(r) == [t |-> "star", r |-> r]
RPlus(r) == [t |-> "plus", r |-> r]
RBol == [t |-> "bol"]
REol == [t |-> "eol"]
RWordB == [t |-> "wordb"]
\* a literal text
RLit(str) == RCat([i \in 1..Len(str) |-> RSet({SubSeq(str, i, i)})])
\* a literal text under the i flag
RLitI(str) ==
    RCat([i \in 1..Len(str) |->
            RSet({c \in LetterChars \cup {SubSeq(str, i, i)} :
                    ToLowerChar(c) = ToLowerChar(SubSeq(str, i, i))})])
\* r{n,}
RAtLeast(r, n) == RCat([i \in 1..n |-> r] \o <<RStar(r)>>)
\* the dot
RDot == RNot(LineTerminators)
RDigit == RSet(DigitChars)
RSpace == RSet(SpaceChars)
RWord == RSet(WordChars)

\* is there a \w character at 0-based position p of s
IsWordAt(s, p) == p >= 0 /\ p < Len(s) /\ s[p + 1] \in WordChars

\* does the character at 1-based index j of s match the one-character pattern r
MatchesChar(r, s, j) ==
    IF r.t = "set" THEN s[j] \in r.chars ELSE s[j] \notin r.chars

\* r*, r a one-character pattern (every starred pattern of the source is one):
\* the positions reached from P over a run of characters that match r
EndsStar(r, s, P) ==
    {q \in 0..Len(s) : \E p \in P : p <= q /\ \A j \in (p + 1)..q : MatchesChar(r, s, j)}

RECURSIVE Ends(_, _, _)
RECURSIVE EndsCat(_, _, _, _)
Ends(re, s, P) ==
    IF P = {} THEN {}
    ELSE CASE re.t = "set" ->
                {p + 1 : p \in {q \in P : q < Len(s) /\ s[q + 1] \in re.chars}}
           [] re.t = "not" ->
                {p + 1 : p \in {q \in P : q < Len(s) /\ s[q + 1] \notin re.chars}}
           [] re.t = "cat" -> EndsCat(re.rs, 1, s, P)
           [] re.t = "alt" -> UNION {Ends(re.rs[i], s, P) : i \in 1..Len(re.rs)}
           [] re.t = "opt" -> P \cup Ends(re.r, s, P)
           [] re.t = "star" -> EndsStar(re.r, s, P)
           [] re.t = "plus" -> EndsStar(re.r, s, Ends(re.r, s, P))
           [] re.t = "bol" -> P \cap {0}
           [] re.t = "eol" -> P \cap {Len(s)}
           [] re.t = "wordb" -> {p \in P : IsWordAt(s, p - 1) # IsWordAt(s, p)}
EndsCat(rs, k, s, P) ==
    IF k > Len(rs) \/ P = {} THEN P
    ELSE EndsCat(rs, k + 1, s, Ends(rs[k], s, P))

\* re.test(s)
RegexTest(re, s) == Ends(re, s, 0..Len(s)) # {}

\* the first match of re in s at or after position from: <<start, end>>, or
\* <<-1, -1>>.  The patterns used with the g flag match greedily to the
\* longest end, which is the end taken here.
FirstMatch(re, s, from) ==
    LET starts == {p \in from..Len(s) : Ends(re, s, {p}) # {}}
    IN  IF starts = {} THEN <<-1, -1>>
        ELSE <<Min(starts), Max(Ends(re, s, {Min(starts)}))>>

\* s.match(re) || [] for a pattern with the g flag that matches no empty text
RECURSIVE MatchAllFrom(_, _, _)
MatchAllFrom(re, s, st) ==
    IF st.from = -1 THEN st.found
    ELSE LET m == FirstMatch(re, s, st.from)
         IN  MatchAllFrom(re, s,
                [from |-> m[2],
                 found |-> IF m[1] = -1 THEN st.found
                           ELSE Append(st.found, Substring(s, m[1], m[2]))])
MatchAll(re, s) == MatchAllFrom(re, s, [from |-> 0, found |-> <<>>])

(***************************************************************************)
(* The shared currency classifier, looksLikeCurrency.                      *)
(***************************************************************************)
\* /[\\^{}]/, the pattern without the underscore
ReLatexSyntaxNoUnderscore == RSet({"\\", "^", "{", "}"})
\* /[\\^_{}]/
ReLatexSyntax == RSet({"\\", "^", "_", "{", "}"})
\* /[a-zA-Z]\s*\(.*\)/
ReFunctionNotation ==
    RCat(<<RSet(LetterChars), RStar(RSpace), RSet({"("}), RStar(RDot), RSet({")"})>>)
\* /=/
ReEquals == RSet({"="})
\* /[<>]/
ReComparison == RSet({"<", ">"})
\* /[\r\n]\s*[-*+#]/
ReListMarker == RCat(<<RSet({"\r", "\n"}), RStar(RSpace), RSet({"-", "*", "+", "#"})>>)
\* /[.!?]\s+[A-Z]/
ReSentenceEnd == RCat(<<RSet({".", "!", "?"}), RPlus(RSpace), RSet(UpperChars)>>)
\* /\b[a-zA-Z]{3,}\b/g
ReLongWord == RCat(<<RWordB, RAtLeast(RSet(LetterChars), 3), RWordB>>)
\* /[*#`\[\]]/
ReMarkdownMarker == RSet({"*", "#", Backtick, "[", "]"})
\* /^[\d.,]+[,\s]*$/
RePureNumeric ==
    RCat(<<RBol, RPlus(RSet(DigitChars \cup {".", ","})),
           RStar(RSet(SpaceChars \cup {","})), REol>>)
\* /^[\d.,]+\s*-?\s*$/
ReTrailingRange ==
    RCat(<<RBol, RPlus(RSet(DigitChars \cup {".", ","})), RStar(RSpace),
           ROpt(RSet({"-"})), RStar(RSpace), REol>>)
\* /^[\d.,]+[kKmMbB]?(?:\/\w+)?[,\s)]*$/
ReCurrencyFormat ==
    RCat(<<RBol, RPlus(RSet(DigitChars \cup {".", ","})),
           ROpt(RSet({"k", "K", "m", "M", "b", "B"})),
           ROpt(RCat(<<RSet({"/"}), RPlus(RWord)>>)),
           RStar(RSet(SpaceChars \cup {",", ")"})), REol>>)
\* /^\d+(?:\.\d+)?\/\w+[,\s)]*$/
RePerUnit ==
    RCat(<<RBol, RPlus(RDigit), ROpt(RCat(<<RSet({"."}), RPlus(RDigit)>>)),
           RSet({"/"}), RPlus(RWord), RStar(RSet(SpaceChars \cup {",", ")"})), REol>>)
\* /[a-zA-Z]/
ReLetter == RSet(LetterChars)
\* /[a-zA-Z0-9]\s*[+\-*/]\s*[a-zA-Z0-9]/
ReArithmetic ==
    RCat(<<RSet(LetterChars \cup DigitChars), RStar(RSpace), RSet({"+", "-", "*", "/"}),
           RStar(RSpace), RSet(LetterChars \cup DigitChars)>>)
\* /^\d/
ReLeadingDigit == RCat(<<RBol, RDigit>>)
\* /\b[a-zA-Z]+\b/g
ReAnyWord == RCat(<<RWordB, RPlus(RSet(LetterChars)), RWordB>>)
\* /^[a-z][0-9]*$/i
ReSingleVariable == RCat(<<RBol, RSet(LetterChars), RStar(RDigit), REol>>)
\* /^[\d.,\s$\-/]+(\s*(per|unit|each|k|m|b|million|billion|thousand))?$/i
ReCurrencyLike ==
    RCat(<<RBol, RPlus(RSet(DigitChars \cup SpaceChars \cup {".", ",", "$", "-", "/"})),
           ROpt(RCat(<<RStar(RSpace),
                       RAlt(<<RLitI("per"), RLitI("unit"), RLitI("each"), RLitI("k"),
                              RLitI("m"), RLitI("b"), RLitI("million"), RLitI("billion"),
                              RLitI("thousand")>>)>>)),
           REol>>)
\* /,\s+[a-zA-Z]/
ReCommaWord == RCat(<<RSet({","}), RPlus(RSpace), RSet(LetterChars)>>)
\* /:/
ReColon == RSet({":"})

latexCommands ==
    {Chars(w) : w \in
        {"frac", "sqrt", "sum", "prod", "int", "lim", "log", "sin", "cos", "tan",
         "alpha", "beta", "gamma", "delta", "theta", "lambda", "sigma", "omega",
         "infty", "partial", "nabla", "cdot", "times", "div", "pm", "mp",
         "leq", "geq", "neq", "approx", "equiv", "subset", "supset",
         "mathbb", "mathcal", "mathrm", "text", "left", "right", "begin", "end",
         "ln", "exp", "pi"}}

currencyConnectors == {Chars(w) : w \in {"or", "to", "and", "per", "a", "an", "the"}}

IsEnglishWord(w) == ToLower(w) \notin latexCommands
IsNonCurrencyWord(w) == ToLower(w) \notin currencyConnectors

\* content.replace(/[^a-zA-Z]/g, '').length
LetterCount(content) == Cardinality({i \in 1..Len(content) : content[i] \in LetterChars})

looksLikeCurrency(content) ==
    IF content = <<>> \/ IsBlank(content) THEN TRUE
    ELSE IF RegexTest(ReLatexSyntax, content) THEN FALSE
    ELSE IF RegexTest(ReFunctionNotation, content) THEN FALSE
    ELSE IF RegexTest(ReEquals, content) THEN FALSE
    ELSE IF RegexTest(ReComparison, content) THEN FALSE
    ELSE IF RegexTest(ReListMarker, content) THEN TRUE
    ELSE IF RegexTest(ReSentenceEnd, content) THEN TRUE
    ELSE IF Len(SelectSeq(MatchAll(ReLongWord, content), IsEnglishWord)) >= 2 THEN TRUE
    ELSE IF RegexTest(ReMarkdownMarker, content) THEN TRUE
    ELSE IF RegexTest(RePureNumeric, content) THEN TRUE
    ELSE IF RegexTest(ReTrailingRange, content) THEN TRUE
    ELSE IF RegexTest(ReCurrencyFormat, content) THEN TRUE
    ELSE IF RegexTest(RePerUnit, content) THEN TRUE
    ELSE IF RegexTest(ReLetter, content) /\ RegexTest(ReArithmetic, content) THEN FALSE
    ELSE IF /\ RegexTest(ReLeadingDigit, content)
            /\ LET wordsInContent == MatchAll(ReAnyWord, content)
               IN  /\ Len(wordsInContent) > 0
                   /\ Len(SelectSeq(wordsInContent, IsNonCurrencyWord)) = 0
         THEN TRUE
    ELSE IF RegexTest(ReSingleVariable, Trim(content)) THEN FALSE
    ELSE IF RegexTest(ReCurrencyLike, content) THEN TRUE
    ELSE IF /\ RegexTest(ReLeadingDigit, content)
            /\ \/ RegexTest(ReCommaWord, content)
               \/ RegexTest(ReColon, content)
         THEN TRUE
    ELSE IF Len(content) < 20 /\ LetterCount(content) <= 3 THEN TRUE
    ELSE Len(content) < 10

(***************************************************************************)
(* Hash utilities: hashBase36, encodeBase64, decodeBase64.                 *)
(***************************************************************************)
\* hash = ((hash << 5) - hash) + char; hash = hash & hash, kept in 32 bits as
\* the pair <<high 16 bits, low 16 bits>>
HashStep(h, code) ==
    LET lo == 31 * h[2] + code
    IN  <<(31 * h[1] + (lo \div 65536)) % 65536, lo % 65536>>

\* the for loop of hashBase36; st holds i (1-based) and hash
RECURSIVE HashLoop(_, _)
HashLoop(str, st) ==
    IF st.i > Len(str) THEN st.hash
    ELSE HashLoop(str, [i |-> st.i + 1, hash |-> HashStep(st.hash, CharCode(str[st.i]))])

Base36Digits == Chars("0123456789abcdefghijklmnopqrstuvwxyz")

\* (n >>> 0).toString(36) for n = <<high 16 bits, low 16 bits>>
RECURSIVE ToBase36(_)
ToBase36(n) ==
    LET rest == (n[1] % 36) * 65536 + n[2]
        q == <<n[1] \div 36, rest \div 36>>
        d == <<Base36Digits[(rest % 36) + 1]>>
    IN  IF q = <<0, 0>> THEN d ELSE ToBase36(q) \o d

hashBase36(str) ==
    IF str = <<>> THEN Chars("0") ELSE ToBase36(HashLoop(str, [i |-> 1, hash |-> <<0, 0>>]))

Base64Digits ==
    Chars("ABCDEFGHIJKLMNOPQRSTUVWXYZabcdefghijklmnopqrstuvwxyz0123456789+/")

Base64Value(c) == (CHOOSE i \in 1..64 : Base64Digits[i] = c) - 1

\* the base64 digits of the group of up to three characters that starts at
\* 1-based index i of str
EncodeGroup(str, i) ==
    LET n == Len(str) - i + 1
        b1 == CharCode(str[i])
        b2 == IF n >= 2 THEN CharCode(str[i + 1]) ELSE 0
        b3 == IF n >= 3 THEN CharCode(str[i + 2]) ELSE 0
        bits == b1 * 65536 + b2 * 256 + b3
        c1 == Base64Digits[(bits \div 262144) + 1]
        c2 == Base64Digits[((bits \div 4096) % 64) + 1]
        c3 == IF n >= 2 THEN Base64Digits[((bits \div 64) % 64) + 1] ELSE "="
        c4 == IF n >= 3 THEN Base64Digits[(bits % 64) + 1] ELSE "="
    IN  <<c1, c2, c3, c4>>

RECURSIVE EncodeLoop(_, _)
EncodeLoop(str, st) ==
    IF st.i > Len(str) THEN st.out
    ELSE EncodeLoop(str, [i |-> st.i + 3, out |-> st.out \o EncodeGroup(str, st.i)])

\* btoa / Buffer.toString('base64') on the bytes of an ASCII text
encodeBase64(str) == EncodeLoop(str, [i |-> 1, out |-> <<>>])

\* the characters encoded by the group of four base64 digits that starts at
\* 1-based index i of str
DecodeGroup(str, i) ==
    LET v1 == Base64Value(str[i])
        v2 == Base64Value(str[i + 1])
        v3 == IF str[i + 2] = "=" THEN 0 ELSE Base64Value(str[i + 2])
        v4 == IF str[i + 3] = "=" THEN 0 ELSE Base64Value(str[i + 3])
        bits == v1 * 262144 + v2 * 4096 + v3 * 64 + v4
        o1 == <<FromCharCode(bits \div 65536)>>
        o2 == IF str[i + 2] = "=" THEN <<>> ELSE <<FromCharCode((bits \div 256) % 256)>>
        o3 == IF str[i + 3] = "=" THEN <<>> ELSE <<FromCharCode(bits % 256)>>
    IN  o1 \o o2 \o o3

RECURSIVE DecodeLoop(_, _)
DecodeLoop(str, st) ==
    IF st.i + 3 > Len(str) THEN st.out
    ELSE DecodeLoop(str, [i |-> st.i + 4, out |-> st.out \o DecodeGroup(str, st.i)])

\* atob / Buffer.from(str, 'base64') back to an ASCII text
decodeBase64(str) == DecodeLoop(str, [i |-> 1, out |-> <<>>])

(***************************************************************************)
(* MathProtector.                                                          *)
(***************************************************************************)
\* delimiters left in an order that is not the priority order
delimitersUnsorted ==
    <<[left |-> Chars("$"), right |-> Chars("$"), display |-> FALSE, priority |-> 4],
      [left |-> Chars("$$"), right |-> Chars("$$"), display |-> TRUE, priority |-> 1],
      [left |-> Chars("\\["), right |-> Chars("\\]"), display |-> TRUE, priority |-> 2],
      [left |-> Chars("\\("), right |-> Chars("\\)"), display |-> FALSE, priority |-> 3]>>

\* delimiters in which the double-dollar pair is not marked as display
delimitersDollarsInline ==
    <<[left |-> Chars("$$"), right |-> Chars("$$"), display |-> FALSE, priority |-> 1],
      [left |-> Chars("\\["), right |-> Chars("\\]"), display |-> TRUE, priority |-> 2],
      [left |-> Chars("\\("), right |-> Chars("\\)"), display |-> FALSE, priority |-> 3],
      [left |-> Chars("$"), right |-> Chars("$"), display |-> FALSE, priority |-> 4]>>

\* this.delimiters, sorted by priority
delimiters ==
    <<[left |-> Chars("$$"), right |-> Chars("$$"), display |-> TRUE, priority |-> 1],
      [left |-> Chars("\\["), right |-> Chars("\\]"), display |-> TRUE, priority |-> 2],
      [left |-> Chars("\\("), right |-> Chars("\\)"), display |-> FALSE, priority |-> 3],
      [left |-> Chars("$"), right |-> Chars("$"), display |-> FALSE, priority |-> 4]>>

\* /\$(\d[\d,]*(?:\.\d+)?)\s*-\s*\$(\d[\d,]*(?:\.\d+)?)/g
ReAmount ==
    RCat(<<RSet({"$"}), RDigit, RStar(RSet(DigitChars \cup {","})),
           ROpt(RCat(<<RSet({"."}), RPlus(RDigit)>>))>>)
ReCurrencyRange ==
    RCat(<<ReAmount, RStar(RSpace), RSet({"-"}), RStar(RSpace), ReAmount>>)

\* /::CUR\d+::/
ReCurrencyPlaceholder == RCat(<<RLit("::CUR"), RPlus(RDigit), RLit("::")>>)

CurrencyPlaceholder(n) == Chars("::CUR") \o NumStr(n) \o Chars("::")
MathPlaceholder(n) == Chars("::MATH_") \o NumStr(n) \o Chars("::")
PendingPlaceholder(n) == Chars("::PENDINGMATH") \o NumStr(n) \o Chars("::")

\* Map.prototype.set on a map kept as the sequence of its entries in
\* insertion order, each entry a record with a key field
MapSet(map, entry) ==
    IF \E i \in 1..Len(map) : map[i].key = entry.key
    THEN [i \in 1..Len(map) |-> IF map[i].key = entry.key THEN entry ELSE map[i]]
    ELSE Append(map, entry)

MapKeys(map) == [i \in 1..Len(map) |-> map[i].key]
MapGet(map, k) == map[CHOOSE i \in 1..Len(map) : map[i].key = k]

\* protect, step 1: every currency range is replaced by a ::CUR<n>:: placeholder
\* and recorded in currencyMap
\* st holds the text built so far, the position from which the next match is
\* searched (-1 after the last match), currencyCounter and currencyMap.
RECURSIVE MaskCurrencyRanges(_, _)
MaskCurrencyRanges(content, st) ==
    IF st.from = -1 THEN st
    ELSE LET m == FirstMatch(ReCurrencyRange, content, st.from)
             placeholder == CurrencyPlaceholder(st.currencyCounter)
         IN  MaskCurrencyRanges(content,
                IF m[1] = -1
                THEN [st EXCEPT !.text = @ \o SubstringFrom(content, st.from), !.from = -1]
                ELSE [text |-> st.text \o Substring(content, st.from, m[1]) \o placeholder,
                      from |-> m[2],
                      currencyCounter |-> st.currencyCounter + 1,
                      currencyMap |-> MapSet(st.currencyMap,
                                         [key |-> placeholder,
                                          original |-> Substring(content, m[1], m[2])])])

\* isInsideBackticks answering that no position is inside code
isInsideBackticksNever(content, position) == FALSE

\* isInsideBackticks
isInsideBackticks(content, position) ==
    Cardinality({i \in 0..(position - 1) : i < Len(content) /\ content[i + 1] = Backtick}) % 2 = 1

\* the search for the closing delimiter of a $$ span
FindDoubleDollarRight(result, delim, leftPos) ==
    LET tempPos == leftPos + Len(delim.left)
    IN  IF tempPos < Len(result) THEN IndexOf(result, delim.right, tempPos) ELSE -1

\* the search for the closing delimiter of a $ span
RECURSIVE FindSingleDollarRight(_, _, _, _)
FindSingleDollarRight(result, delim, tempPos, nextParagraphBreak) ==
    IF ~(tempPos < Len(result)) THEN -1
    ELSE LET foundPos == IndexOf(result, delim.right, tempPos)
         IN  IF foundPos = -1 THEN -1
             ELSE IF nextParagraphBreak # -1 /\ foundPos > nextParagraphBreak THEN -1
             ELSE IF foundPos > 0 /\ result[foundPos] = "\\"
                  THEN FindSingleDollarRight(result, delim, foundPos + 1, nextParagraphBreak)
             ELSE foundPos

FindRight(result, delim, leftPos) ==
    IF delim.left = Chars("$$") THEN FindDoubleDollarRight(result, delim, leftPos)
    ELSE IF delim.left = Chars("$")
         THEN FindSingleDollarRight(result, delim, leftPos + Len(delim.left),
                                    IndexOf(result, Chars("\n\n"), leftPos))
    ELSE IndexOf(result, delim.right, leftPos + Len(delim.left))

\* afterDelim.split(/[\s\n]/)[0]
ImmediateContent(afterDelim) ==
    LET stops == {i \in 1..Len(afterDelim) : afterDelim[i] \in SpaceChars}
    IN  IF stops = {} THEN afterDelim ELSE SubSeq(afterDelim, 1, Min(stops) - 1)

\* the test that decides whether an unterminated span becomes pending math
HasPendingMathSyntax(checkContent) ==
    /\ Len(checkContent) > 0
    /\ \/ Includes(checkContent, Chars("\\"))
       \/ Includes(checkContent, Chars("^"))
       \/ Includes(checkContent, Chars("{"))
       \/ Includes(checkContent, Chars("begin"))
       \/ Includes(checkContent, Chars("frac"))

\* a table row whose original is the inner content, without the delimiters
SpanEntryInnerOnly(placeholder, original, delim, innerContent, isPending) ==
    [key |-> placeholder,
     original |-> innerContent,
     encodedOriginal |-> encodeBase64(innerContent),
     display |-> delim.display,
     innerContent |-> innerContent,
     delimiter |-> delim,
     isPending |-> isPending]

\* the row that mathMap.set stores for a span
SpanEntry(placeholder, original, delim, innerContent, isPending) ==
    [key |-> placeholder,
     original |-> original,
     encodedOriginal |-> encodeBase64(original),
     display |-> delim.display,
     innerContent |-> innerContent,
     delimiter |-> delim,
     isPending |-> isPending]

\* a counter that is not advanced after a span has been recorded
NextCounterStuck(counter) == counter

\* this.counter++
NextCounter(counter) == counter + 1

\* a scan that resumes after the right marker of a candidate it rejects as
\* currency
ResumeAfterRightMarker(st, leftPos, mathEnd) == [st EXCEPT !.searchPos = mathEnd]

\* a complete single-dollar candidate rejected as currency: searchPos =
\* leftPos + 1; continue
\* a currency rejection that leaves the cursor on the opener
ResumeAtOpener(st, leftPos, mathEnd) == [st EXCEPT !.searchPos = leftPos]

ResumeAfterCurrency(st, leftPos, mathEnd) == [st EXCEPT !.searchPos = leftPos + 1]

\* One iteration of the while loop of extractAndReplace.  st is the record of
\* the loop's variables: result, searchPos, this.counter, mathMap, and done,
\* which is set when the loop is left.  assigned is the history of the
\* placeholders handed out, in the order of the mathMap.set calls.
ExtractStep(st, delim) ==
    LET result == st.result
        leftPos == IndexOf(result, delim.left, st.searchPos)
        rightPos == FindRight(result, delim, leftPos)
        isDollar == delim.left = Chars("$")
        skipOne == [st EXCEPT !.searchPos = leftPos + 1]
        \* the unterminated branch
        pendingContent == SubstringFrom(result, leftPos)
        afterDelim == SubstringFrom(pendingContent, Len(delim.left))
        sameParagraphContent == IndexOf(result, Chars("\n\n"), leftPos)
        checkContent ==
            IF sameParagraphContent # -1
            THEN Substring(result, leftPos + Len(delim.left), sameParagraphContent)
            ELSE afterDelim
        endPos == IF sameParagraphContent # -1 THEN sameParagraphContent ELSE Len(result)
        limitedPendingContent == Substring(result, leftPos, endPos)
        pendingPlaceholder == PendingPlaceholder(st.counter)
        \* the complete branch
        mathStart == leftPos
        mathEnd == rightPos + Len(delim.right)
        mathExpression == Substring(result, mathStart, mathEnd)
        innerContent == Substring(result, leftPos + Len(delim.left), rightPos)
        placeholder == MathPlaceholder(st.counter)
    IN  IF ~(st.searchPos < Len(result)) THEN [st EXCEPT !.done = TRUE]
        ELSE IF leftPos = -1 THEN [st EXCEPT !.done = TRUE]
        ELSE IF isDollar /\ leftPos > 0 /\ result[leftPos] = "\\" THEN skipOne
        ELSE IF isDollar /\ isInsideBackticks(result, leftPos) THEN skipOne
        ELSE IF rightPos = -1
             THEN IF isDollar /\ looksLikeCurrency(ImmediateContent(afterDelim)) THEN skipOne
                  ELSE IF HasPendingMathSyntax(checkContent)
                       THEN [result |-> Substring(result, 0, leftPos) \o pendingPlaceholder
                                            \o SubstringFrom(result, endPos),
                             searchPos |-> leftPos + Len(pendingPlaceholder),
                             counter |-> NextCounter(st.counter),
                             mathMap |-> MapSet(st.mathMap,
                                            SpanEntry(pendingPlaceholder, limitedPendingContent,
                                                      delim, checkContent, TRUE)),
                             assigned |-> Append(st.assigned, pendingPlaceholder),
                             done |-> FALSE]
                  ELSE [st EXCEPT !.done = TRUE]
        ELSE IF IsBlank(innerContent) THEN [st EXCEPT !.searchPos = mathEnd]
        ELSE IF isDollar /\ (Includes(innerContent, Chars("\n")) \/ Includes(innerContent, Chars("\r")))
             THEN skipOne
        ELSE IF RegexTest(ReCurrencyPlaceholder, innerContent) THEN skipOne
        ELSE IF isDollar /\ looksLikeCurrency(innerContent)
             THEN ResumeAfterCurrency(st, leftPos, mathEnd)
        ELSE [result |-> Substring(result, 0, mathStart) \o placeholder
                             \o SubstringFrom(result, mathEnd),
              searchPos |-> mathStart + Len(placeholder),
              counter |-> NextCounter(st.counter),
              mathMap |-> MapSet(st.mathMap,
                             SpanEntry(placeholder, mathExpression, delim, innerContent, FALSE)),
              assigned |-> Append(st.assigned, placeholder),
              done |-> FALSE]

RECURSIVE ExtractLoop(_, _)
ExtractLoop(st, delim) ==
    IF st.done THEN st ELSE ExtractLoop(ExtractStep(st, delim), delim)

\* extractAndReplace(content, delim, mathMap) entered in the state st of the
\* protect call (text, map, counter); the result carries the returned text,
\* the map and the counter
extractAndReplace(st, delim) ==
    ExtractLoop([st EXCEPT !.searchPos = 0, !.done = FALSE], delim)

\* protect, step 2: the delimiters in priority order
RECURSIVE ProtectDelimiters(_, _)
ProtectDelimiters(st, k) ==
    IF k > Len(delimiters) THEN st
    ELSE ProtectDelimiters(extractAndReplace(st, delimiters[k]), k + 1)

\* a protect without step 3: the currency placeholders stay in the text
RestoreCurrencySkipped(st, cmap) == st.protectedContent

\* protect, step 3: the currency placeholders are put back into the text
\* st holds protectedContent and the index k of the next entry of currencyMap
RECURSIVE RestoreCurrency(_, _)
RestoreCurrency(st, cmap) ==
    IF st.k > Len(cmap) THEN st.protectedContent
    ELSE RestoreCurrency(
            [protectedContent |->
                SplitJoin(st.protectedContent, cmap[st.k].key, cmap[st.k].original),
             k |-> st.k + 1], cmap)

\* null and undefined given where a text is expected: each is written as a
\* one-element sequence whose element is no character, so that it differs
\* from every text and from the empty text
Null == <<"NULL">>
Undefined == <<"UNDEFINED">>

\* !content, for a text or an absent value
Falsy(content) == content \in {<<>>, Null, Undefined}

\* protect(content) on an instance with the fields inst (counter,
\* currencyCounter, currencyMap): the returned { protected, mathMap } and the
\* fields after the call
protect(content, inst) ==
    IF Falsy(content)
    THEN [protected |-> <<>>, mathMap |-> <<>>, assigned |-> <<>>, counter |-> inst.counter,
          currencyCounter |-> inst.currencyCounter, currencyMap |-> inst.currencyMap]
    ELSE LET masked == MaskCurrencyRanges(content,
                          [text |-> <<>>, from |-> 0, currencyCounter |-> 0,
                           currencyMap |-> <<>>])
             scanned == ProtectDelimiters(
                          [result |-> masked.text, searchPos |-> 0, counter |-> inst.counter,
                           mathMap |-> <<>>, assigned |-> <<>>, done |-> FALSE], 1)
         IN  [protected |-> RestoreCurrency([protectedContent |-> scanned.result, k |-> 1],
                                            masked.currencyMap),
              mathMap |-> scanned.mathMap,
              assigned |-> scanned.assigned,
              counter |-> scanned.counter,
              currencyCounter |-> masked.currencyCounter,
              currencyMap |-> masked.currencyMap]

\* katexLib.renderToString(innerContent, { displayMode, ... }) of a backend that
\* returns markup: the markup is the inner content inside a katex element
renderToString(innerContent, displayMode) ==
    (IF displayMode THEN Chars("<span class=katex-display>") ELSE Chars("<span class=katex>"))
    \o innerContent \o Chars("</span>")

\* a renderMathExpression whose catch block returns the inner content, without
\* the delimiters
renderMathExpressionDropsDelimiters(original, mathInfo, katexLib) ==
    IF mathInfo.innerContent = <<>> \/ IsBlank(mathInfo.innerContent) THEN original
    ELSE IF mathInfo.innerContent \in katexLib.rejects THEN mathInfo.innerContent
    ELSE IF mathInfo.display
         THEN Chars("<div class=katex-display-wrapper>")
              \o renderToString(mathInfo.innerContent, TRUE) \o Chars("</div>")
    ELSE renderToString(mathInfo.innerContent, FALSE)

\* renderMathExpression; katexLib.rejects is the set of inner contents on which
\* the backend throws
renderMathExpression(original, mathInfo, katexLib) ==
    IF mathInfo.innerContent = <<>> \/ IsBlank(mathInfo.innerContent) THEN original
    ELSE IF mathInfo.innerContent \in katexLib.rejects THEN original
    ELSE IF mathInfo.display
         THEN Chars("<div class=katex-display-wrapper>")
              \o renderToString(mathInfo.innerContent, TRUE) \o Chars("</div>")
    ELSE renderToString(mathInfo.innerContent, FALSE)

\* the loop of restore over sortedPlaceholders; st holds restored and the
\* index k of the next placeholder
RECURSIVE RestoreLoop(_, _, _, _, _)
RestoreLoop(st, sortedPlaceholders, mathMap, renderOnRestore, katexLib) ==
    IF st.k > Len(sortedPlaceholders) THEN st.restored
    ELSE LET placeholder == sortedPlaceholders[st.k]
             mathInfo == MapGet(mathMap, placeholder)
             original ==
                 IF mathInfo.encodedOriginal # <<>>
                 THEN decodeBase64(mathInfo.encodedOriginal)
                 ELSE mathInfo.original
             replacement ==
                 IF renderOnRestore /\ katexLib.available
                 THEN renderMathExpression(original, mathInfo, katexLib)
                 ELSE original
         IN  RestoreLoop(
                [restored |->
                    IF mathInfo.encodedOriginal = <<>> /\ mathInfo.original = <<>>
                    THEN st.restored
                    ELSE SplitJoin(st.restored, placeholder, replacement),
                 k |-> st.k + 1],
                sortedPlaceholders, mathMap, renderOnRestore, katexLib)

\* Array.from(mathMap.keys()).sort().reverse()
SortedPlaceholders(mathMap) == Reverse(SortTexts(MapKeys(mathMap)))

\* restore(content, mathMap)
restore(content, mathMap, renderOnRestore, katexLib) ==
    IF Falsy(content) \/ Len(mathMap) = 0 THEN content
    ELSE RestoreLoop([restored |-> content, k |-> 1], SortedPlaceholders(mathMap),
                     mathMap, renderOnRestore, katexLib)

(***************************************************************************)
(* StreamingMathRenderer: signature extraction.                            *)
(***************************************************************************)
\* this.delimiters of the streaming renderer, in its own order
streamDelimiters ==
    <<[left |-> Chars("$$"), right |-> Chars("$$"), display |-> TRUE],
      [left |-> Chars("$"), right |-> Chars("$"), display |-> FALSE],
      [left |-> Chars("\\["), right |-> Chars("\\]"), display |-> TRUE],
      [left |-> Chars("\\("), right |-> Chars("\\)"), display |-> FALSE]>>

\* content.replace(currencyRangePattern, '___CURRENCY_RANGE___')
RECURSIVE CleanCurrencyLoop(_, _)
CleanCurrencyLoop(content, st) ==
    IF st.from = -1 THEN st.text
    ELSE LET m == FirstMatch(ReCurrencyRange, content, st.from)
         IN  CleanCurrencyLoop(content,
                [from |-> m[2],
                 text |-> IF m[1] = -1 THEN st.text \o SubstringFrom(content, st.from)
                          ELSE st.text \o Substring(content, st.from, m[1])
                                       \o Chars("___CURRENCY_RANGE___")])
CleanCurrencyRanges(content) == CleanCurrencyLoop(content, [from |-> 0, text |-> <<>>])

\* the search for the closing delimiter of a $ formula
RECURSIVE StreamFindSingleDollarRight(_, _, _)
StreamFindSingleDollarRight(cleanContent, delim, tempPos) ==
    IF ~(tempPos < Len(cleanContent)) THEN -1
    ELSE LET foundPos == IndexOf(cleanContent, delim.right, tempPos)
         IN  IF foundPos = -1 THEN -1
             ELSE IF foundPos > 0 /\ cleanContent[foundPos] = "\\"
                  THEN StreamFindSingleDollarRight(cleanContent, delim, foundPos + 1)
             ELSE foundPos

\* One iteration of the while (true) loop of extractFormulaSignatures; st holds
\* searchPos, signatures, and done, which is set when the loop is left.
SignatureStep(st, cleanContent, delim) ==
    LET leftPos == IndexOf(cleanContent, delim.left, st.searchPos)
        isDollar == delim.left = Chars("$")
        rightPos ==
            IF isDollar
            THEN StreamFindSingleDollarRight(cleanContent, delim, leftPos + Len(delim.left))
            ELSE IndexOf(cleanContent, delim.right, leftPos + Len(delim.left))
        formula == Substring(cleanContent, leftPos + Len(delim.left), rightPos)
        signature == delim.left \o hashBase36(formula)
    IN  IF leftPos = -1 THEN [st EXCEPT !.done = TRUE]
        ELSE IF isDollar /\ isInsideBackticks(cleanContent, leftPos)
             THEN [st EXCEPT !.searchPos = leftPos + 1]
        ELSE IF rightPos = -1 THEN [st EXCEPT !.done = TRUE]
        ELSE IF ~IsBlank(formula)
             THEN IF isDollar /\ looksLikeCurrency(formula)
                  THEN [st EXCEPT !.searchPos = leftPos + 1]
                  ELSE [st EXCEPT !.signatures = Append(@, signature),
                                  !.searchPos = rightPos + Len(delim.right)]
        ELSE [st EXCEPT !.searchPos = rightPos + Len(delim.right)]

RECURSIVE SignatureLoop(_, _, _)
SignatureLoop(st, cleanContent, delim) ==
    IF st.done THEN st
    ELSE SignatureLoop(SignatureStep(st, cleanContent, delim), cleanContent, delim)

RECURSIVE SignatureDelimiters(_, _, _)
SignatureDelimiters(signatures, cleanContent, k) ==
    IF k > Len(streamDelimiters) THEN signatures
    ELSE SignatureDelimiters(
            SignatureLoop([searchPos |-> 0, signatures |-> signatures, done |-> FALSE],
                          cleanContent, streamDelimiters[k]).signatures,
            cleanContent, k + 1)

\* extractFormulaSignatures(content): the array of signatures
extractFormulaSignatures(content) ==
    SignatureDelimiters(<<>>, CleanCurrencyRanges(content), 1)

\* a filter that finds every signature in the seen set
FilterEverything(arr, seen) == <<>>

\* a filter that lets every signature through
FilterNothing(arr, seen) == arr

\* arr.filter(sig => !seen.has(sig))
FilterUnseen(arr, seen) == SelectSeq(arr, LAMBDA sig : sig \notin seen)

Range(arr) == {arr[i] : i \in 1..Len(arr)}

\* /\s$/.test(content)
EndsWithWhitespace(content) == Len(content) > 0 /\ content[Len(content)] \in SpaceChars

\* renderMath with afterCount >= beforeCount in the place of afterCount > beforeCount
renderMathCountsEqual(outcome) == outcome \in {"rendered", "nothing"}

\* renderMath that reports success when there is no backend to call
renderMathNoGuard(outcome) == outcome \in {"rendered", "absent"}

\* renderMath(targetElement): outcome tells what the lookup of the in-place
\* backend and its invocation do: "absent" (no renderMathInElement), "throws",
\* "nothing" (the count of .katex elements did not grow) or "rendered"
renderMath(outcome) == outcome = "rendered"

\* processChunk(content, targetElement) on a tracker with the fields t; the
\* result carries the fields after the call, the returned value and whether
\* renderMath was called
processChunk(t, content, outcome) ==
    LET attempted ==
            [t EXCEPT !.stats.rendersAttempted = @ + 1,
                      !.accumulatedContent = @ \o content,
                      !.lastCharWasWhitespace = EndsWithWhitespace(content)]
        currentFormulas == extractFormulaSignatures(content)
        newFormulas == FilterUnseen(currentFormulas, t.seenFormulas)
        rendered == renderMath(outcome)
    IN  IF Len(newFormulas) = 0
        THEN [tracker |-> [attempted EXCEPT !.stats.rendersSkipped = @ + 1,
                                            !.consecutiveSkips = @ + 1],
              returned |-> FALSE, invoked |-> FALSE]
        ELSE IF rendered
             THEN [tracker |-> [attempted EXCEPT !.seenFormulas = @ \cup Range(newFormulas),
                                                 !.consecutiveSkips = 0,
                                                 !.stats.rendersExecuted = @ + 1],
                   returned |-> TRUE, invoked |-> TRUE]
        ELSE [tracker |-> attempted, returned |-> FALSE, invoked |-> TRUE]

\* the fields of a StreamingMathRenderer after its constructor, and after reset()
FreshTracker ==
    [seenFormulas |-> {},
     lastContentHash |-> <<>>,
     consecutiveSkips |-> 0,
     lastCharWasWhitespace |-> FALSE,
     accumulatedContent |-> <<>>,
     stats |-> [rendersAttempted |-> 0, rendersSkipped |-> 0, rendersExecuted |-> 0]]

(***************************************************************************)
(* IncrementalContentRenderer.                                             *)
(***************************************************************************)
\* appendNewContent(targetElement, fullContent, renderMarkdown) on a renderer
\* with the fields inc (lastContent, renderCount) and a target whose content
\* is inc.innerHTML: the returned value and the fields after the call.  The
\* element is described by the markdown text it shows; renderMarkdown itself
\* is not unfolded.
appendNewContent(inc, target, fullContent) ==
    IF target = "null" \/ Falsy(fullContent) THEN [inc EXCEPT !.updated = FALSE]
    ELSE IF fullContent = inc.lastContent THEN [inc EXCEPT !.updated = FALSE]
    ELSE [updated |-> TRUE,
          lastContent |-> fullContent,
          renderCount |-> inc.renderCount + 1,
          innerHTML |-> [source |-> fullContent, cursor |-> TRUE]]

(***************************************************************************)
(* Inputs of the model.                                                    *)
(***************************************************************************)
RECURSIVE Repeat(_, _)
Repeat(s, n) == IF n = 0 THEN <<>> ELSE s \o Repeat(s, n - 1)

TenSpans == Repeat(Chars("$$a$$ "), 9) \o Chars("$x$$y$$z$")

\* texts of the test suites
MixedEquation == Chars("The equation $x^2$ costs $50")
MixedBudget == Chars("Budget: $100, formula: $y = mx + b$")
RapidDelimiters == Chars("$a$ then $$b$$ then $c$ then \\[d\\] then $e$ then \\(f\\)")
AdjacentMath == Chars("$x$$y$$z$")
RangePlain == Chars("Range: $50-$100")
RangeSpaced == Chars("Price: $25 - $50")
RangeCommas == Chars("Budget: $1,000-$2,000")
RangeThenFormula == Chars("Price range $50-$100, formula: $x^2 + y^2$")
\* a currency range between two dollar amounts
AmountsAroundRange == Chars("cost $5 or $50-$100 total $7")
\* an escaped dollar, dollars inside inline code, and a backtick inside a
\* display span that stands before an inline span
EscapedDollar == Chars("Price: \\$50")
CodeHome == Chars("Use ") \o <<Backtick>> \o Chars("$HOME") \o <<Backtick>> \o Chars(" variable")
CodeAssign == Chars("Code: ") \o <<Backtick>> \o Chars("$a = $b + $c") \o <<Backtick>>
MathAndCode ==
    Chars("The equation $x^2$ and code ") \o <<Backtick>> \o Chars("$var") \o <<Backtick>>
BacktickInDisplay == Chars("$$a") \o <<Backtick>> \o Chars("b$$ $x$")
\* a paragraph with an unterminated opener before a paragraph with a span
OpenerThenSpan == Chars("Let $x be large.\n\nThen $y^2$ holds.")

\* the texts handed to protect
Texts ==
    {<<>>,
     Chars("$x^2$"),
     Chars("$x$$y$$z$"),
     TenSpans,
     Chars("\\[a\\] \\(b\\) $d$"),
     Chars("$x^2 costs $50-$100"),
     Chars("\\(a \\[ x^\n\n b\\)"),
     Chars("Range: $50-$100"),
     Chars("$x^"),
     Chars("Use ") \o <<Backtick>> \o Chars("$x$") \o <<Backtick>> \o Chars(" or $y$"),
     Null, Undefined,
     MixedEquation, MixedBudget, RapidDelimiters,
     RangeSpaced, RangeCommas, RangeThenFormula,
     Chars("$x_1"), Chars("$5"), Chars("$50 is the price"),
     AmountsAroundRange,
     EscapedDollar, CodeHome, CodeAssign, MathAndCode, BacktickInDisplay,
     OpenerThenSpan}

\* the KaTeX library found by getKaTeX() at a restore call: none, or one that
\* throws on some expressions and renders the others
NoKatex == [available |-> FALSE, rejects |-> {}]
KatexBackends ==
    {NoKatex, [available |-> TRUE, rejects |-> {Chars("x^2"), Chars("y"), Chars("b")}]}

\* token-shaped strings that no protect call of the model hands out
StrayTokens == CurrencyPlaceholder(7) \o MathPlaceholder(77) \o PendingPlaceholder(7)

\* the texts handed to restore in place of a protected text: an absent text,
\* a text with no token, and the protected text twice over after token-shaped
\* strings
Edits(protected) ==
    {Null, Undefined,
     Chars("no token here"),
     StrayTokens \o protected \o Chars(" and ") \o protected}

\* the contents handed to looksLikeCurrency: up to MaxParts of these parts, one
\* after the other
Parts ==
    {<<>>, Chars("50"), Chars("x"), Chars("2"), Chars(" "), Chars("^"), Chars("_"),
     Chars("{"), Chars("}"), Chars("\\")}

RECURSIVE PartsUpTo(_)
PartsUpTo(n) ==
    IF n = 0 THEN {<<>>}
    ELSE {head \o tail : head \in Parts, tail \in PartsUpTo(n - 1)}

Candidates == PartsUpTo(MaxParts)

\* the chunks handed to processChunk
Chunks ==
    {<<>>, Chars("$x^2$"), Chars("$x"), Chars("^2$"), Chars("\\(a\\) "), Chars("$5 and $10")}

\* the chunks handed to appendContent and the texts handed to setContent
StreamChunks == {<<>>, Null, Chars("a"), Chars("$x"), Chars("^2$")}
FullContents == {<<>>, Null, Chars("a"), Chars("$x^2$")}

\* what a call of the in-place backend can do
Outcomes == {"throws", "nothing", "rendered"}

(***************************************************************************)
(* State.                                                                  *)
(***************************************************************************)
VARIABLES
    \* MathProtector instance
    counter, currencyCounter, currencyMap, options,
    \* the latest protect call: its argument, its result, the placeholders it
    \* handed out
    content, protected, mathMap, assigned,
    \* the restore call that followed the latest protect call, if made
    \* already: the text handed to it, the library it found and its result
    given, katexLib, restored,
    \* the latest call on the protector, and the result of the protect call
    \* before the latest one when both had the same argument
    lastOp, prior,
    \* StreamingMathRenderer instance
    seenFormulas, lastContentHash, consecutiveSkips, lastCharWasWhitespace,
    accumulatedContent, stats,
    \* whether renderMathInElement exists in the session's environment
    renderFn,
    \* the latest call on the tracker: its name, its chunk, the backend's
    \* outcome, the returned value, and the tracker as it was before the call
    lastCall, chunk, backend, returned, pre,
    \* history of the streaming session: the chunks processed, the chunks
    \* whose call was skipped or returned true, and whether every backend
    \* invocation reported new rendering
    chunkLog, settled, allRendered,
    \* the number of processChunk calls since construction or the last reset()
    processCalls,
    \* a call of looksLikeCurrency: its argument and what it returned
    candidate, verdict,
    \* StreamRenderer instance: this.content and this.targetElement ("element"
    \* or "null"); its streamingMathRenderer is the tracker above
    streamContent, targetElement,
    \* its IncrementalContentRenderer
    processedFormulas, lastContent, renderCount,
    \* the target element: the markdown text whose rendering is its innerHTML,
    \* and whether the streaming cursor is attached
    innerHTML,
    \* the latest call on the StreamRenderer: its name, its argument, what it
    \* returned ("throws" when it threw), this.content before it, and the number
    \* of appendContent and setContent calls since construction or reset()
    streamCall, streamArg, streamResult, streamBefore, streamCalls,
    \* a scan followed one loop iteration at a time: which scan it is
    \* ("protect", "signatures" or "none"), the index k of the delimiter whose
    \* loop runs, the locals of the loop, the number of iterations made, and the
    \* text length and cursor before the latest iteration
    scan

protectorVars ==
    <<counter, currencyCounter, currencyMap, options, content, protected, mathMap,
      assigned, given, katexLib, restored, lastOp, prior>>
trackerVars ==
    <<seenFormulas, lastContentHash, consecutiveSkips, lastCharWasWhitespace,
      accumulatedContent, stats, renderFn, lastCall, chunk, backend, returned, pre,
      chunkLog, settled, allRendered, processCalls>>
classifierVars == <<candidate, verdict>>
rendererVars ==
    <<streamContent, targetElement, processedFormulas, lastContent, renderCount, innerHTML,
      streamCall, streamArg, streamResult, streamBefore, streamCalls>>
scanVars == <<scan>>
vars == <<protectorVars, trackerVars, classifierVars, rendererVars, scanVars>>

NoCall == [content |-> <<>>, protected |-> <<>>, mathMap |-> <<>>, made |-> FALSE]

\* the tracker's fields as one record
Tracker ==
    [seenFormulas |-> seenFormulas,
     lastContentHash |-> lastContentHash,
     consecutiveSkips |-> consecutiveSkips,
     lastCharWasWhitespace |-> lastCharWasWhitespace,
     accumulatedContent |-> accumulatedContent,
     stats |-> stats]

Snapshot ==
    [tracker |-> Tracker, chunkLog |-> chunkLog, settled |-> settled]

\* new MathProtector(options)
ProtectorInit(renderOnRestore) ==
    /\ counter = 0
    /\ currencyCounter = 0
    /\ currencyMap = <<>>
    /\ options = [renderOnRestore |-> renderOnRestore]
    /\ content = <<>>
    /\ protected = <<>>
    /\ mathMap = <<>>
    /\ assigned = <<>>
    /\ given = <<>>
    /\ katexLib = NoKatex
    /\ restored = <<>>
    /\ lastOp = "new"
    /\ prior = NoCall

\* new StreamingMathRenderer()
TrackerInit ==
    /\ seenFormulas = FreshTracker.seenFormulas
    /\ lastContentHash = FreshTracker.lastContentHash
    /\ consecutiveSkips = FreshTracker.consecutiveSkips
    /\ lastCharWasWhitespace = FreshTracker.lastCharWasWhitespace
    /\ accumulatedContent = FreshTracker.accumulatedContent
    /\ stats = FreshTracker.stats
    /\ lastCall = "new"
    /\ chunk = <<>>
    /\ backend = "none"
    /\ returned = FALSE
    /\ pre = [tracker |-> FreshTracker, chunkLog |-> {}, settled |-> {}]
    /\ chunkLog = {}
    /\ settled = {}
    /\ allRendered = TRUE
    /\ processCalls = 0

\* no call of looksLikeCurrency made yet
ClassifierIdle ==
    /\ candidate = <<>>
    /\ verdict = "none"

\* the target element with nothing rendered into it
EmptyElement == [source |-> <<>>, cursor |-> FALSE]

\* new StreamRenderer(target), without its streamingMathRenderer; new
\* IncrementalContentRenderer()
StreamRendererInit(target) ==
    /\ streamContent = <<>>
    /\ targetElement = target
    /\ processedFormulas = {}
    /\ lastContent = <<>>
    /\ renderCount = 0
    /\ innerHTML = EmptyElement
    /\ streamCall = "new"
    /\ streamArg = <<>>
    /\ streamResult = "none"
    /\ streamBefore = <<>>
    /\ streamCalls = 0

\* the locals of a scan loop that has not been entered
ScanStart(kind, text) ==
    [kind |-> kind, k |-> 1, result |-> text, searchPos |-> 0, counter |-> 0,
     mathMap |-> <<>>, assigned |-> <<>>, signatures |-> <<>>, done |-> FALSE,
     steps |-> 0, before |-> [len |-> Len(text), searchPos |-> 0]]
NoScan == [ScanStart("none", <<>>) EXCEPT !.k = 0]

Init ==
    /\ \E renderOnRestore \in BOOLEAN : ProtectorInit(renderOnRestore)
    /\ TrackerInit
    /\ renderFn = FALSE
    /\ ClassifierIdle
    /\ StreamRendererInit("element")
    /\ scan = NoScan
StreamInit ==
    /\ ProtectorInit(TRUE)
    /\ TrackerInit
    /\ renderFn \in BOOLEAN
    /\ ClassifierIdle
    /\ StreamRendererInit("element")
    /\ scan = NoScan

(***************************************************************************)
(* MathProtector operations.                                               *)
(***************************************************************************)
\* protect(text); the model makes no further call after a RestoreText call,
\* whose state differs from the state before it in given, katexLib and
\* restored only, which a protect call overwrites
Protect(text) ==
    /\ counter < MaxCounter
    /\ lastOp # "restoreText"
    /\ \E res \in {protect(text, [counter |-> counter, currencyCounter |-> currencyCounter,
                                   currencyMap |-> currencyMap])} :
           /\ counter' = res.counter
           /\ currencyCounter' = res.currencyCounter
           /\ currencyMap' = res.currencyMap
           /\ content' = text
           /\ protected' = res.protected
           /\ mathMap' = res.mathMap
           /\ assigned' = res.assigned
    /\ prior' = IF lastOp \in {"protect", "restore"} /\ content = text
                THEN [content |-> content, protected |-> protected, mathMap |-> mathMap,
                      made |-> TRUE]
                ELSE NoCall
    /\ given' = <<>>
    /\ katexLib' = NoKatex
    /\ restored' = <<>>
    /\ lastOp' = "protect"
    /\ UNCHANGED <<options, trackerVars, classifierVars, scanVars, rendererVars>>

\* restore(protected, mathMap) on the result of the latest protect call
Restore(lib) ==
    /\ lastOp = "protect"
    /\ given' = protected
    /\ katexLib' = lib
    /\ restored' = restore(protected, mathMap, options.renderOnRestore, lib)
    /\ lastOp' = "restore"
    /\ UNCHANGED <<counter, currencyCounter, currencyMap, options, content, protected,
                   mathMap, assigned, prior, trackerVars, classifierVars, scanVars, rendererVars>>

\* restore(text, mathMap) with the span table of the latest protect call and a
\* text that is not the protected text itself: the caller's markdown pass ran
\* in between, or the caller had no text
RestoreText(text, lib) ==
    /\ lastOp = "protect"
    /\ given' = text
    /\ katexLib' = lib
    /\ restored' = restore(text, mathMap, options.renderOnRestore, lib)
    /\ lastOp' = "restoreText"
    /\ UNCHANGED <<counter, currencyCounter, currencyMap, options, content, protected,
                   mathMap, assigned, prior, trackerVars, classifierVars, scanVars, rendererVars>>

Reset ==
    /\ lastOp \notin {"reset", "restoreText"}
    /\ counter' = 0
    /\ currencyCounter' = 0
    /\ currencyMap' = <<>>
    /\ lastOp' = "reset"
    /\ UNCHANGED <<options, content, protected, mathMap, assigned, given, katexLib,
                   restored, prior, trackerVars, classifierVars, scanVars, rendererVars>>

Next ==
    \/ \E text \in Texts : Protect(text)
    \/ \E lib \in KatexBackends : Restore(lib)
    \/ \E text \in Edits(protected), lib \in KatexBackends : RestoreText(text, lib)
    \/ Reset

Spec == Init /\ [][Next]_vars

(***************************************************************************)
(* StreamingMathRenderer operations.                                       *)
(***************************************************************************)
ProcessChunk(c, outcome) ==
    /\ processCalls < MaxChunks
    /\ outcome = "absent" <=> ~renderFn
    /\ \E res \in {processChunk(Tracker, c, outcome)} :
           /\ seenFormulas' = res.tracker.seenFormulas
           /\ lastContentHash' = res.tracker.lastContentHash
           /\ consecutiveSkips' = res.tracker.consecutiveSkips
           /\ lastCharWasWhitespace' = res.tracker.lastCharWasWhitespace
           /\ accumulatedContent' = res.tracker.accumulatedContent
           /\ stats' = res.tracker.stats
           /\ returned' = res.returned
           /\ backend' = IF res.invoked THEN outcome ELSE "none"
           /\ settled' = IF res.returned \/ ~res.invoked THEN settled \cup {c} ELSE settled
           /\ allRendered' = (allRendered /\ (res.invoked => outcome = "rendered"))
    /\ processCalls' = processCalls + 1
    /\ chunk' = c
    /\ chunkLog' = chunkLog \cup {c}
    /\ pre' = Snapshot
    /\ lastCall' = "processChunk"
    /\ UNCHANGED <<renderFn, protectorVars, classifierVars, scanVars, rendererVars>>

\* finalRender(targetElement)
FinalRender(outcome) ==
    /\ lastCall = "processChunk"
    /\ outcome = "absent" <=> ~renderFn
    /\ backend' = outcome
    /\ pre' = Snapshot
    /\ lastCall' = "finalRender"
    /\ UNCHANGED <<seenFormulas, lastContentHash, consecutiveSkips, lastCharWasWhitespace,
                   accumulatedContent, stats, renderFn, chunk, returned, chunkLog, settled,
                   allRendered, processCalls, protectorVars, classifierVars, scanVars, rendererVars>>

\* a reset() that forgets this.seenFormulas.clear()
TrackerResetKeepsSeen ==
    /\ lastCall # "reset"
    /\ lastContentHash' = <<>>
    /\ consecutiveSkips' = 0
    /\ lastCharWasWhitespace' = FALSE
    /\ accumulatedContent' = <<>>
    /\ stats' = [rendersAttempted |-> 0, rendersSkipped |-> 0, rendersExecuted |-> 0]
    /\ pre' = Snapshot
    /\ lastCall' = "reset"
    /\ chunkLog' = {}
    /\ settled' = {}
    /\ allRendered' = TRUE
    /\ processCalls' = 0
    /\ UNCHANGED <<seenFormulas, renderFn, chunk, backend, returned, protectorVars,
                   classifierVars, scanVars, rendererVars>>

\* reset()
TrackerReset ==
    /\ lastCall # "reset"
    /\ seenFormulas' = {}
    /\ lastContentHash' = <<>>
    /\ consecutiveSkips' = 0
    /\ lastCharWasWhitespace' = FALSE
    /\ accumulatedContent' = <<>>
    /\ stats' = [rendersAttempted |-> 0, rendersSkipped |-> 0, rendersExecuted |-> 0]
    /\ pre' = Snapshot
    /\ lastCall' = "reset"
    /\ chunkLog' = {}
    /\ settled' = {}
    /\ allRendered' = TRUE
    /\ processCalls' = 0
    /\ UNCHANGED <<renderFn, chunk, backend, returned, protectorVars, classifierVars, scanVars,
                   rendererVars>>

StreamNext ==
    \/ \E c \in Chunks, outcome \in Outcomes \cup {"absent"} : ProcessChunk(c, outcome)
    \/ \E outcome \in Outcomes \cup {"absent"} : FinalRender(outcome)
    \/ TrackerReset

StreamSpec == StreamInit /\ [][StreamNext]_vars

(***************************************************************************)
(* StreamRenderer operations.                                              *)
(***************************************************************************)
RendererInit ==
    /\ ProtectorInit(TRUE)
    /\ TrackerInit
    /\ renderFn \in BOOLEAN
    /\ ClassifierIdle
    /\ \E target \in {"element", "null"} : StreamRendererInit(target)
    /\ scan = NoScan

\* the IncrementalContentRenderer's fields and its target as one record
Incremental ==
    [updated |-> FALSE, lastContent |-> lastContent, renderCount |-> renderCount,
     innerHTML |-> innerHTML]

BoolStr(b) == IF b THEN "true" ELSE "false"

\* an appendContent that overwrites this.content with the chunk
AppendedOverwrites(text, chunkArg) == chunkArg

\* this.content += chunk
Appended(text, chunkArg) == text \o chunkArg

\* appendContent(chunk)
AppendContent(chunkArg, outcome) ==
    /\ streamCalls < MaxStreamCalls
    /\ outcome = "absent" <=> ~renderFn
    /\ streamCall' = "appendContent"
    /\ streamArg' = chunkArg
    /\ streamBefore' = streamContent
    /\ streamCalls' = streamCalls + 1
    /\ IF Falsy(chunkArg)
       THEN /\ streamResult' = "false"
            /\ UNCHANGED <<streamContent, lastContent, renderCount, innerHTML, trackerVars>>
       ELSE \E inc \in {appendNewContent(Incremental, targetElement, Appended(streamContent, chunkArg))} :
              /\ streamContent' = Appended(streamContent, chunkArg)
              /\ lastContent' = inc.lastContent
              /\ renderCount' = inc.renderCount
              /\ innerHTML' = inc.innerHTML
              /\ streamResult' = BoolStr(inc.updated)
              /\ IF inc.updated
                 THEN /\ \E res \in {processChunk(Tracker, Appended(streamContent, chunkArg), outcome)} :
                           /\ seenFormulas' = res.tracker.seenFormulas
                           /\ lastContentHash' = res.tracker.lastContentHash
                           /\ consecutiveSkips' = res.tracker.consecutiveSkips
                           /\ lastCharWasWhitespace' = res.tracker.lastCharWasWhitespace
                           /\ accumulatedContent' = res.tracker.accumulatedContent
                           /\ stats' = res.tracker.stats
                           /\ returned' = res.returned
                           /\ backend' = IF res.invoked THEN outcome ELSE "none"
                           /\ settled' = IF res.returned \/ ~res.invoked
                                         THEN settled \cup {Appended(streamContent, chunkArg)}
                                         ELSE settled
                           /\ allRendered' =
                                  (allRendered /\ (res.invoked => outcome = "rendered"))
                      /\ processCalls' = processCalls + 1
                      /\ chunk' = Appended(streamContent, chunkArg)
                      /\ chunkLog' = chunkLog \cup {Appended(streamContent, chunkArg)}
                      /\ pre' = Snapshot
                      /\ lastCall' = "processChunk"
                      /\ UNCHANGED renderFn
                 ELSE UNCHANGED trackerVars
    /\ UNCHANGED <<targetElement, processedFormulas, protectorVars, classifierVars, scanVars>>

\* setContent(content)
SetContent(contentArg) ==
    /\ streamCalls < MaxStreamCalls
    /\ streamCall' = "setContent"
    /\ streamArg' = contentArg
    /\ streamBefore' = streamContent
    /\ streamCalls' = streamCalls + 1
    /\ streamContent' = IF Falsy(contentArg) THEN <<>> ELSE contentArg
    /\ \E inc \in {appendNewContent(Incremental, targetElement,
                                     IF Falsy(contentArg) THEN <<>> ELSE contentArg)} :
          /\ lastContent' = inc.lastContent
          /\ renderCount' = inc.renderCount
          /\ innerHTML' = inc.innerHTML
          /\ streamResult' = BoolStr(inc.updated)
    /\ UNCHANGED <<targetElement, processedFormulas, trackerVars, protectorVars,
                   classifierVars, scanVars>>

\* finalize(): the cursor is removed and finalRender is called; with no
\* target element the first statement throws
Finalize(outcome) ==
    /\ streamCall \in {"appendContent", "setContent"}
    /\ outcome = "absent" <=> ~renderFn
    /\ streamCall' = "finalize"
    /\ streamArg' = <<>>
    /\ streamBefore' = streamContent
    /\ IF targetElement = "null"
       THEN /\ streamResult' = "throws"
            /\ UNCHANGED <<innerHTML, trackerVars>>
       ELSE /\ streamResult' = "none"
            /\ innerHTML' = [innerHTML EXCEPT !.cursor = FALSE]
            /\ backend' = outcome
            /\ pre' = Snapshot
            /\ lastCall' = "finalRender"
            /\ UNCHANGED <<seenFormulas, lastContentHash, consecutiveSkips,
                           lastCharWasWhitespace, accumulatedContent, stats, renderFn, chunk,
                           returned, chunkLog, settled, allRendered, processCalls>>
    /\ UNCHANGED <<streamContent, targetElement, processedFormulas, lastContent, renderCount,
                   streamCalls, protectorVars, classifierVars, scanVars>>

\* reset(): the content, the incremental renderer and the tracker are reset,
\* then the element is emptied, which throws when there is no element
StreamRendererReset ==
    /\ streamCall # "reset"
    /\ streamCall' = "reset"
    /\ streamArg' = <<>>
    /\ streamBefore' = streamContent
    /\ streamCalls' = 0
    /\ streamContent' = <<>>
    /\ processedFormulas' = {}
    /\ lastContent' = <<>>
    /\ renderCount' = 0
    /\ seenFormulas' = {}
    /\ lastContentHash' = <<>>
    /\ consecutiveSkips' = 0
    /\ lastCharWasWhitespace' = FALSE
    /\ accumulatedContent' = <<>>
    /\ stats' = [rendersAttempted |-> 0, rendersSkipped |-> 0, rendersExecuted |-> 0]
    /\ pre' = Snapshot
    /\ lastCall' = "reset"
    /\ chunkLog' = {}
    /\ settled' = {}
    /\ allRendered' = TRUE
    /\ processCalls' = 0
    /\ IF targetElement = "null"
       THEN /\ streamResult' = "throws"
            /\ UNCHANGED innerHTML
       ELSE /\ streamResult' = "none"
            /\ innerHTML' = EmptyElement
    /\ UNCHANGED <<targetElement, renderFn, chunk, backend, returned, protectorVars,
                   classifierVars, scanVars>>

RendererNext ==
    \/ \E chunkArg \in StreamChunks, outcome \in Outcomes \cup {"absent"} :
          AppendContent(chunkArg, outcome)
    \/ \E contentArg \in FullContents : SetContent(contentArg)
    \/ \E outcome \in Outcomes \cup {"absent"} : Finalize(outcome)
    \/ StreamRendererReset

RendererSpec == RendererInit /\ [][RendererNext]_vars

(***************************************************************************)
(* looksLikeCurrency, called on its own.                                   *)
(***************************************************************************)
ClassifyInit ==
    /\ ProtectorInit(FALSE)
    /\ TrackerInit
    /\ renderFn = FALSE
    /\ candidate \in Candidates
    /\ verdict = "none"
    /\ StreamRendererInit("element")
    /\ scan = NoScan

\* looksLikeCurrency(candidate)
Classify ==
    /\ verdict = "none"
    /\ verdict' = IF looksLikeCurrency(candidate) THEN "currency" ELSE "math"
    /\ UNCHANGED <<candidate, protectorVars, trackerVars, rendererVars, scanVars>>

ClassifyNext == Classify

ClassifySpec == ClassifyInit /\ [][ClassifyNext]_vars

(***************************************************************************)
(* The scan loops of protect and of extractFormulaSignatures, one iteration *)
(* at a time.                                                              *)
(***************************************************************************)
\* the texts that reach the loops: protect returns before them on an absent
\* or empty text
ScanTexts == Texts \ {Null, Undefined}

\* protect after step 1, and extractFormulaSignatures after the currency
\* ranges are cleaned
ScanInit ==
    /\ ProtectorInit(TRUE)
    /\ TrackerInit
    /\ renderFn = FALSE
    /\ ClassifierIdle
    /\ StreamRendererInit("element")
    /\ \/ \E text \in ScanTexts \ {<<>>} :
             scan = ScanStart("protect",
                        MaskCurrencyRanges(text, [text |-> <<>>, from |-> 0,
                                                  currencyCounter |-> 0,
                                                  currencyMap |-> <<>>]).text)
       \/ \E text \in ScanTexts \cup Chunks :
             scan = ScanStart("signatures", CleanCurrencyRanges(text))

\* one iteration of the while loop of extractAndReplace
ExtractIteration ==
    /\ scan.kind = "protect"
    /\ ~scan.done
    /\ scan.steps < MaxScanSteps
    /\ \E nx \in {ExtractStep([result |-> scan.result, searchPos |-> scan.searchPos,
                                counter |-> scan.counter, mathMap |-> scan.mathMap,
                                assigned |-> scan.assigned, done |-> FALSE],
                               delimiters[scan.k])} :
           scan' = [scan EXCEPT !.result = nx.result,
                                !.searchPos = nx.searchPos,
                                !.counter = nx.counter,
                                !.mathMap = nx.mathMap,
                                !.assigned = nx.assigned,
                                !.done = nx.done,
                                !.steps = @ + 1,
                                !.before = [len |-> Len(scan.result),
                                            searchPos |-> scan.searchPos]]
    /\ UNCHANGED <<protectorVars, trackerVars, classifierVars, rendererVars>>

\* one iteration of the while loop of extractFormulaSignatures
SignatureIteration ==
    /\ scan.kind = "signatures"
    /\ ~scan.done
    /\ scan.steps < MaxScanSteps
    /\ \E nx \in {SignatureStep([searchPos |-> scan.searchPos,
                                  signatures |-> scan.signatures, done |-> FALSE],
                                 scan.result, streamDelimiters[scan.k])} :
           scan' = [scan EXCEPT !.searchPos = nx.searchPos,
                                !.signatures = nx.signatures,
                                !.done = nx.done,
                                !.steps = @ + 1,
                                !.before = [len |-> Len(scan.result),
                                            searchPos |-> scan.searchPos]]
    /\ UNCHANGED <<protectorVars, trackerVars, classifierVars, rendererVars>>

\* the for loop over the delimiters enters the loop of the next delimiter
NextDelimiter ==
    /\ scan.kind \in {"protect", "signatures"}
    /\ scan.done
    /\ scan.k < Len(delimiters)
    /\ scan' = [scan EXCEPT !.k = @ + 1,
                            !.searchPos = 0,
                            !.done = FALSE,
                            !.steps = 0,
                            !.before = [len |-> Len(scan.result), searchPos |-> 0]]
    /\ UNCHANGED <<protectorVars, trackerVars, classifierVars, rendererVars>>

ScanNext ==
    \/ ExtractIteration
    \/ SignatureIteration
    \/ NextDelimiter

ScanSpec == ScanInit /\ [][ScanNext]_vars

(***************************************************************************)
(* Properties of MathProtector (specification Spec).                       *)
(***************************************************************************)
\* /::MATH_\d+::/ and /::PENDINGMATH\d+::/
ReMathPlaceholder == RCat(<<RLit("::MATH_"), RPlus(RDigit), RLit("::")>>)
RePendingPlaceholder == RCat(<<RLit("::PENDINGMATH"), RPlus(RDigit), RLit("::")>>)

HasCurrencyToken(text) == RegexTest(ReCurrencyPlaceholder, text)
HasReservedToken(text) ==
    \/ RegexTest(ReMathPlaceholder, text)
    \/ RegexTest(RePendingPlaceholder, text)
    \/ RegexTest(ReCurrencyPlaceholder, text)

\* restore ran without rendering: renderOnRestore is false or no KaTeX was found
RenderingDisabled == ~(options.renderOnRestore /\ katexLib.available)

\* the texts of Texts that consist of complete delimiter spans, none written
\* inside another, and prose
WellFormedTexts ==
    {Chars("$x^2$"), Chars("$x$$y$$z$"), TenSpans, Chars("\\[a\\] \\(b\\) $d$")}

\* what one occurrence of the token of a span is to become in a restore call:
\* the backend's markup of the inner content, inside a wrapper for a display
\* span, and the verbatim original where rendering is off, no library was
\* found or the backend throws on the inner content
ExpectedReplacement(mathInfo) ==
    IF RenderingDisabled \/ mathInfo.innerContent \in katexLib.rejects
       \/ IsBlank(mathInfo.innerContent)
    THEN mathInfo.original
    ELSE IF mathInfo.display
         THEN Chars("<div class=katex-display-wrapper><span class=katex-display>")
              \o mathInfo.innerContent \o Chars("</span></div>")
    ELSE Chars("<span class=katex>") \o mathInfo.innerContent \o Chars("</span>")

\* the positions of text, from position from on, at which the token of a span
\* of the table stands
KeyPositions(text, from) ==
    {IndexOf(text, mathMap[i].key, from) : i \in 1..Len(mathMap)} \ {-1}

\* the entries of the span table whose token stands at position pos of text
EntriesAt(text, pos) ==
    {i \in 1..Len(mathMap) : IndexOf(text, mathMap[i].key, pos) = pos}

\* one pass over text, left to right, in which every occurrence of a token of
\* the span table becomes its expected replacement and every other character
\* stays; st holds the position and the output so far
RECURSIVE SubstituteLoop(_, _)
SubstituteLoop(text, st) ==
    IF KeyPositions(text, st.pos) = {}
    THEN st.out \o SubstringFrom(text, st.pos)
    ELSE LET next == CHOOSE p \in KeyPositions(text, st.pos) :
                         \A q \in KeyPositions(text, st.pos) : p <= q
             i == CHOOSE h \in EntriesAt(text, next) : TRUE
         IN  SubstituteLoop(text,
                [pos |-> next + Len(mathMap[i].key),
                 out |-> st.out \o Substring(text, st.pos, next)
                                \o ExpectedReplacement(mathMap[i])])

TokensSubstituted(text) == SubstituteLoop(text, [pos |-> 0, out |-> <<>>])

\* no span of the table was captured with a token inside it
NoNestedToken == \A i \in 1..Len(mathMap) : ~HasReservedToken(mathMap[i].original)

\* the spans of the table on whose inner content the backend throws
RejectedSpans == {i \in 1..Len(mathMap) : mathMap[i].innerContent \in katexLib.rejects}

\* C1: for a text made only of well-formed, non-nested spans (adjacent spans
\* and ten or more spans included), protect followed by restore with rendering
\* disabled returns exactly the input text.
C1_RoundTrip ==
    (lastOp = "restore" /\ RenderingDisabled /\ content \in WellFormedTexts)
        => restored = content

\* C2: when the input holds no ::CUR<n>:: string, no ::CUR<n>:: token appears
\* in the protected text returned by protect nor in the original text or the
\* inner content of any entry of the span table, pending entries included.
C2_NoCurrencyMask ==
    (lastOp = "protect" /\ ~HasCurrencyToken(content))
        => /\ ~HasCurrencyToken(protected)
           /\ \A i \in 1..Len(mathMap) :
                /\ ~HasCurrencyToken(mathMap[i].original)
                /\ ~HasCurrencyToken(decodeBase64(mathMap[i].encodedOriginal))
                /\ ~HasCurrencyToken(mathMap[i].innerContent)

\* C3: when the input holds no reserved token, the result of protect followed
\* by restore with rendering disabled holds no ::MATH_<n>::, ::PENDINGMATH<n>::
\* or ::CUR<n>:: placeholder.
C3_NoPlaceholderLeak ==
    (lastOp = "restore" /\ RenderingDisabled /\ ~HasReservedToken(content))
        => ~HasReservedToken(restored)

\* C4: the tokens handed out within one protect call are pairwise distinct,
\* complete and pending spans alike, so the keys of the span table are exactly
\* the tokens handed out, one entry for each.
C4_TokensDistinct ==
    /\ \A i, j \in 1..Len(assigned) : i # j => assigned[i] # assigned[j]
    /\ MapKeys(mathMap) = assigned

C4_Witness ==
    /\ lastOp = "protect"
    /\ Len(assigned) >= 2
    /\ \E i, j \in 1..Len(mathMap) : mathMap[i].isPending /\ ~mathMap[j].isPending

\* C5: the first span recorded by every protect call has counter value 0, also
\* in a second or later call on the same instance with no reset() in between.
C5_FirstTokenIsZero ==
    (lastOp = "protect" /\ Len(assigned) > 0)
        => assigned[1] \in {MathPlaceholder(0), PendingPlaceholder(0)}

\* C6: two consecutive protect calls on one instance with the same input text
\* return the same protected text and the same span table.
C6_Deterministic ==
    (lastOp = "protect" /\ prior.made)
        => /\ prior.content = content
           /\ prior.protected = protected
           /\ prior.mathMap = mathMap

(***************************************************************************)
(* Properties of StreamingMathRenderer (specification StreamSpec).         *)
(***************************************************************************)
\* the signatures of a chunk that the seen set did not hold before the call
NewSignatures == Range(extractFormulaSignatures(chunk)) \ pre.tracker.seenFormulas

\* C7: with a backend that reports new rendering at every invocation, the seen
\* set after the chunks c1..cn equals the seen set of a fresh tracker that is
\* given c1+...+cn as one chunk.
C7_ChunkingInvariant ==
    (lastCall = "processChunk" /\ renderFn /\ allRendered)
        => seenFormulas =
               processChunk(FreshTracker, accumulatedContent, "rendered").tracker.seenFormulas

\* C8 (as stated): a processChunk call whose content equals an earlier chunk of
\* the session raises rendersSkipped by one and leaves rendersExecuted as it
\* was, whatever the backend reported on the earlier call.
C8_RepeatAnyChunk ==
    (lastCall = "processChunk" /\ chunk \in pre.chunkLog)
        => /\ stats.rendersSkipped = pre.tracker.stats.rendersSkipped + 1
           /\ stats.rendersExecuted = pre.tracker.stats.rendersExecuted

\* C8 (amended): a processChunk call whose content equals an earlier chunk of
\* the session, the earlier call having been skipped or having returned true,
\* raises rendersSkipped by one and leaves rendersExecuted as it was.
C8_RepeatSettledChunk ==
    (lastCall = "processChunk" /\ chunk \in pre.settled)
        => /\ stats.rendersSkipped = pre.tracker.stats.rendersSkipped + 1
           /\ stats.rendersExecuted = pre.tracker.stats.rendersExecuted

C8_Witness ==
    /\ lastCall = "processChunk"
    /\ chunk \in pre.settled
    /\ Len(extractFormulaSignatures(chunk)) > 0
    /\ pre.tracker.stats.rendersExecuted > 0

\* C9: the seen set changes only by a processChunk call whose backend
\* invocation reported new rendering, which adds exactly the chunk's new
\* signatures, and by reset(), which empties it; a processChunk call that
\* returns false, and finalRender, leave it as it was.
C9_SeenSetFrame ==
    /\ (lastCall = "processChunk" /\ backend = "rendered")
          => /\ returned
             /\ seenFormulas = pre.tracker.seenFormulas \cup NewSignatures
    /\ (lastCall = "processChunk" /\ (backend # "rendered" \/ ~returned))
          => seenFormulas = pre.tracker.seenFormulas
    /\ lastCall = "finalRender" => seenFormulas = pre.tracker.seenFormulas
    /\ lastCall = "reset" => seenFormulas = {}

C9_Witness ==
    /\ lastCall = "processChunk"
    /\ backend = "rendered"
    /\ pre.tracker.seenFormulas # {}
    /\ seenFormulas # pre.tracker.seenFormulas

\* C10 (as stated): with no in-place backend, processChunk returns false and
\* leaves the seen set, the buffer and the three counters as they were.
C10_AbsentIsNoOp ==
    (lastCall = "processChunk" /\ ~renderFn)
        => /\ ~returned
           /\ seenFormulas = pre.tracker.seenFormulas
           /\ accumulatedContent = pre.tracker.accumulatedContent
           /\ stats = pre.tracker.stats

\* C10 (amended): with no in-place backend, processChunk returns false and
\* leaves the seen set and rendersExecuted as they were; rendersAttempted grows
\* by one, the buffer gains the chunk, and rendersSkipped grows by one exactly
\* when the chunk has no signature outside the seen set.
C10_AbsentReturnsFalse ==
    (lastCall = "processChunk" /\ ~renderFn)
        => /\ ~returned
           /\ seenFormulas = pre.tracker.seenFormulas
           /\ stats.rendersExecuted = pre.tracker.stats.rendersExecuted
           /\ stats.rendersAttempted = pre.tracker.stats.rendersAttempted + 1
           /\ accumulatedContent = pre.tracker.accumulatedContent \o chunk
           /\ stats.rendersSkipped =
                  pre.tracker.stats.rendersSkipped + (IF NewSignatures = {} THEN 1 ELSE 0)

C10_Witness ==
    /\ lastCall = "processChunk"
    /\ ~renderFn
    /\ backend = "absent"
    /\ pre.tracker.stats.rendersAttempted > 0

\* C11: after reset(), whatever calls preceded it, the buffer and the seen
\* set are empty and the three counters are 0, every field being as the
\* constructor leaves it; the first processChunk call of a session (after the
\* constructor or after reset()) therefore leaves the tracker, and returns,
\* what the same call leaves and returns on a freshly constructed tracker.
C11_ResetIsFresh ==
    /\ lastCall = "reset"
          => /\ accumulatedContent = <<>>
             /\ seenFormulas = {}
             /\ stats = [rendersAttempted |-> 0, rendersSkipped |-> 0, rendersExecuted |-> 0]
             /\ Tracker = FreshTracker
    /\ (lastCall = "processChunk" /\ pre.chunkLog = {})
          => \E fresh \in {processChunk(FreshTracker, chunk, backend)} :
                 /\ Tracker = fresh.tracker
                 /\ returned = fresh.returned

C11_Witness ==
    /\ lastCall = "reset"
    /\ pre.tracker.accumulatedContent # <<>>
    /\ pre.tracker.seenFormulas # {}
    /\ pre.tracker.stats.rendersSkipped > 0
    /\ pre.tracker.stats.rendersExecuted > 0

(***************************************************************************)
(* Rendering failures, frame of restore, absent input.                     *)
(***************************************************************************)
\* C12: when rendering is enabled and the backend throws on the content of a
\* span, restore returns the protected text with that span's token replaced by
\* its verbatim original text and the token of every other span replaced by
\* its rendered markup (checked for span tables in which no span was captured
\* with another span's token inside it).
C12_RenderFailureIsLocal ==
    (lastOp = "restore" /\ ~RenderingDisabled /\ NoNestedToken)
        => /\ restored = TokensSubstituted(protected)
           /\ \A i \in RejectedSpans :
                  Includes(protected, mathMap[i].key) => Includes(restored, mathMap[i].original)

C12_Witness ==
    /\ lastOp = "restore"
    /\ ~RenderingDisabled
    /\ NoNestedToken
    /\ RejectedSpans # {}
    /\ \E i \in 1..Len(mathMap) :
           /\ i \notin RejectedSpans
           /\ mathMap[i].display
           /\ Includes(restored, Chars("<span class=katex-display>") \o mathMap[i].innerContent)
    /\ \E i \in RejectedSpans : Includes(restored, mathMap[i].original)

\* the text handed to restore holds the token of no span of the table
HoldsNoKey(text) == \A i \in 1..Len(mathMap) : ~Includes(text, mathMap[i].key)

\* C13: restore changes nothing but the occurrences of the tokens that are
\* keys of the span table: a text that holds no key is returned as it is,
\* token-shaped strings that are no key stay where they are, and the result
\* is the text with every occurrence of a key replaced and every other
\* character kept (the last checked for span tables in which no span was
\* captured with another span's token inside it).
C13_RestoreFrame ==
    lastOp \in {"restore", "restoreText"}
        => /\ HoldsNoKey(given) => restored = given
           /\ (given = StrayTokens \o protected \o Chars(" and ") \o protected)
                 => Substring(restored, 0, Len(StrayTokens)) = StrayTokens
           /\ NoNestedToken
                 => /\ restored = TokensSubstituted(given)
                    /\ HoldsNoKey(restored)

C13_Witness ==
    /\ lastOp = "restoreText"
    /\ Len(mathMap) >= 2
    /\ NoNestedToken
    /\ given = StrayTokens \o protected \o Chars(" and ") \o protected
    /\ \A i \in 1..Len(mathMap) : Includes(protected, mathMap[i].key)
    /\ HoldsNoKey(restored)
    /\ Includes(restored, StrayTokens)

\* C14: for an empty or absent (null, undefined) text, protect returns the
\* empty protected text and an empty span table, and restore returns the
\* empty text.
C14_AbsentGivesEmpty ==
    /\ (lastOp = "protect" /\ Falsy(content))
          => /\ protected = <<>>
             /\ mathMap = <<>>
    /\ (lastOp \in {"restore", "restoreText"} /\ Falsy(given))
          => restored = <<>>

(***************************************************************************)
(* The texts of the test suites.                                           *)
(***************************************************************************)
\* the spans of the table, as <<original, inner content>> pairs in the order
\* in which they were recorded
SpanTexts == [i \in 1..Len(mathMap) |-> <<mathMap[i].original, mathMap[i].innerContent>>]

\* C15: a single-dollar candidate rejected as currency does not hide a
\* well-formed span later in the text: "The equation $x^2$ costs $50" yields
\* exactly one span, of inner content x^2, and "Budget: $100, formula:
\* $y = mx + b$" yields exactly one span, the formula; the currency amounts
\* stay in the protected text.
C15_MathAfterCurrency ==
    lastOp = "protect"
        => /\ content = MixedEquation
                => /\ SpanTexts = << <<Chars("$x^2$"), Chars("x^2")>> >>
                   /\ protected = Chars("The equation ") \o mathMap[1].key \o Chars(" costs $50")
           /\ content = MixedBudget
                => /\ SpanTexts = << <<Chars("$y = mx + b$"), Chars("y = mx + b")>> >>
                   /\ protected = Chars("Budget: $100, formula: ") \o mathMap[1].key

C15_Witness ==
    /\ lastOp = "protect"
    /\ content = MixedBudget
    /\ Len(mathMap) = 1
    /\ ~mathMap[1].isPending
    /\ looksLikeCurrency(Chars("100, formula: "))

\* the token that protect put in the place of the span of the given original
\* text; the empty text when the table has no such span
TokenOf(original) ==
    IF \E i \in 1..Len(mathMap) : mathMap[i].original = original
    THEN mathMap[CHOOSE i \in 1..Len(mathMap) : mathMap[i].original = original].key
    ELSE <<>>

\* C16: protect on "$a$ then $$b$$ then $c$ then \[d\] then $e$ then \(f\)"
\* yields exactly six spans, none pending, standing in the protected text in
\* the order a, b, c, d, e, f; the second and the fourth, $$b$$ and \[d\],
\* are display spans and the other four are inline.
C16_SixSpans ==
    (lastOp = "protect" /\ content = RapidDelimiters)
        => /\ Len(mathMap) = 6
           /\ \A i \in 1..6 : ~mathMap[i].isPending
           /\ protected = TokenOf(Chars("$a$")) \o Chars(" then ")
                             \o TokenOf(Chars("$$b$$")) \o Chars(" then ")
                             \o TokenOf(Chars("$c$")) \o Chars(" then ")
                             \o TokenOf(Chars("\\[d\\]")) \o Chars(" then ")
                             \o TokenOf(Chars("$e$")) \o Chars(" then ")
                             \o TokenOf(Chars("\\(f\\)"))
           /\ {mathMap[i].original : i \in {j \in 1..6 : mathMap[j].display}}
                  = {Chars("$$b$$"), Chars("\\[d\\]")}
           /\ {mathMap[i].innerContent : i \in 1..6}
                  = {Chars("a"), Chars("b"), Chars("c"), Chars("d"), Chars("e"), Chars("f")}

C16_Witness ==
    /\ lastOp = "protect"
    /\ content = RapidDelimiters
    /\ Len(mathMap) = 6
    /\ \E i \in 1..6 : mathMap[i].display /\ mathMap[i].delimiter.left = Chars("$$")

\* texts whose dollar signs all belong to two-sided currency ranges
CurrencyRangeTexts == {RangePlain, RangeSpaced, RangeCommas}

\* C17: for "Range: $50-$100", "Price: $25 - $50" and "Budget: $1,000-$2,000"
\* protect returns an empty span table and the input as protected text, and
\* restore with rendering disabled returns the input; for "Price range
\* $50-$100, formula: $x^2 + y^2$" the formula is the only span and the range
\* stays in the protected text.
C17_CurrencyRanges ==
    /\ (lastOp = "protect" /\ content \in CurrencyRangeTexts)
          => /\ mathMap = <<>>
             /\ protected = content
    /\ (lastOp = "restore" /\ RenderingDisabled /\ content \in CurrencyRangeTexts)
          => restored = content
    /\ (lastOp = "protect" /\ content = RangeThenFormula)
          => /\ SpanTexts = << <<Chars("$x^2 + y^2$"), Chars("x^2 + y^2")>> >>
             /\ protected = Chars("Price range $50-$100, formula: ") \o mathMap[1].key
    /\ (lastOp = "restore" /\ RenderingDisabled /\ content = RangeThenFormula)
          => restored = content

C17_Witness ==
    /\ lastOp = "restore"
    /\ RenderingDisabled
    /\ content = RangeCommas
    /\ Len(currencyMap) = 1
    /\ currencyMap[1].original = Chars("$1,000-$2,000")
    /\ restored = content

\* C19: adjacent single-dollar spans with nothing between them are each
\* protected as a span of their own: protect on "$x$$y$$z$" yields exactly
\* three spans, $x$, $y$ and $z$.
C19_AdjacentSpans ==
    (lastOp = "protect" /\ content = AdjacentMath)
        => /\ Len(mathMap) = 3
           /\ {mathMap[i].original : i \in 1..Len(mathMap)}
                  = {Chars("$x$"), Chars("$y$"), Chars("$z$")}

\* the span table holds one span, pending, that covers the whole input and
\* stands in the protected text as a ::PENDINGMATH<n>:: token
OnePendingSpan ==
    /\ Len(mathMap) = 1
    /\ mathMap[1].isPending
    /\ mathMap[1].original = content
    /\ mathMap[1].key \in {PendingPlaceholder(n) : n \in 0..MaxCounter}
    /\ protected = mathMap[1].key

\* C20: an unterminated span becomes a pending span exactly when its content
\* holds a LaTeX cue (backslash, caret, underscore, curly brace, frac, begin)
\* and its immediate token is not currency: "$x^" and "$x_1" each become one
\* pending span, "$5" and "$50 is the price" create no span.
C20_PendingSpans ==
    lastOp = "protect"
        => /\ content = Chars("$x^") => OnePendingSpan
           /\ content = Chars("$x_1") => OnePendingSpan
           /\ content = Chars("$5") => (mathMap = <<>> /\ protected = content)
           /\ content = Chars("$50 is the price") => (mathMap = <<>> /\ protected = content)

\* the counter value in the token of an entry of the span table
CounterOf(entry) ==
    CHOOSE n \in 0..(MaxCounter + Len(mathMap)) :
        entry.key \in {MathPlaceholder(n), PendingPlaceholder(n)}

\* the place of a delimiter kind in the scan order $$, \[, \(, $
KindRank(left) ==
    IF left = Chars("$$") THEN 1
    ELSE IF left = Chars("\\[") THEN 2
    ELSE IF left = Chars("\\(") THEN 3
    ELSE 4

\* C24: within one protect call the entries of the span table stand in
\* counter order, a span of an earlier-scanned delimiter kind has a smaller
\* counter than a span of a later-scanned kind, and of two spans of one kind
\* whose tokens both stand in the protected text the one further left has
\* the smaller counter.
C24_TokenOrder ==
    lastOp = "protect"
        => \A i, j \in 1..Len(mathMap) :
              /\ i < j <=> CounterOf(mathMap[i]) < CounterOf(mathMap[j])
              /\ KindRank(mathMap[i].delimiter.left) < KindRank(mathMap[j].delimiter.left)
                    => CounterOf(mathMap[i]) < CounterOf(mathMap[j])
              /\ (/\ mathMap[i].delimiter.left = mathMap[j].delimiter.left
                  /\ Includes(protected, mathMap[i].key)
                  /\ Includes(protected, mathMap[j].key)
                  /\ IndexOf(protected, mathMap[i].key, 0) < IndexOf(protected, mathMap[j].key, 0))
                    => CounterOf(mathMap[i]) < CounterOf(mathMap[j])

C24_Witness ==
    /\ lastOp = "protect"
    /\ content = RapidDelimiters
    /\ counter = 7
    /\ \E i, j \in 1..Len(mathMap) :
           /\ mathMap[i].delimiter.left = Chars("$")
           /\ mathMap[j].delimiter.left = Chars("$")
           /\ IndexOf(protected, mathMap[i].key, 0) < IndexOf(protected, mathMap[j].key, 0)
           /\ CounterOf(mathMap[i]) < CounterOf(mathMap[j])
    /\ \E i, j \in 1..Len(mathMap) :
           /\ KindRank(mathMap[i].delimiter.left) < KindRank(mathMap[j].delimiter.left)
           /\ IndexOf(protected, mathMap[i].key, 0) > IndexOf(protected, mathMap[j].key, 0)

\* a text in which the tokens of the first n entries of the span table are
\* replaced by the spans they stand for, later entries first
RECURSIVE Unprotected(_, _)
Unprotected(text, n) ==
    IF n = 0 THEN text
    ELSE Unprotected(SplitJoin(text, mathMap[n].key, mathMap[n].original), n - 1)

\* the position in the text handed to protect of the span of an entry whose
\* token stands in the protected text
OpenerPosition(entry) ==
    Len(Unprotected(Substring(protected, 0, IndexOf(protected, entry.key, 0)), Len(mathMap)))

\* a backslash stands immediately before position p of the text
EscapedAt(text, p) == p > 0 /\ text[p] = "\\"

\* the number of backticks before position p of the text is odd
OddBackticksBefore(text, p) ==
    Cardinality({i \in 1..p : text[i] = Backtick}) % 2 = 1

\* the single-dollar spans of the table whose tokens stand in the protected text
DollarSpans ==
    {i \in 1..Len(mathMap) :
        mathMap[i].delimiter.left = Chars("$") /\ Includes(protected, mathMap[i].key)}

\* the texts of the examples yield no span, and the mixed one exactly one
ExampleSpans ==
    /\ content \in {EscapedDollar, CodeHome, CodeAssign} => Len(mathMap) = 0
    /\ content = MathAndCode
          => Len(mathMap) = 1 /\ mathMap[1].original = Chars("$x^2$")

\* C25 as stated: no single-dollar span opens at a dollar that, in the text
\* handed to protect, follows a backslash or has an odd number of backticks
\* before it; the example texts yield no span, and the mixed one exactly one.
C25_OpenersInText ==
    (lastOp = "protect" /\ ~Falsy(content))
        => /\ ExampleSpans
           /\ \A i \in DollarSpans :
                 LET p == OpenerPosition(mathMap[i])
                 IN  /\ Substring(content, p, p + 1) = Chars("$")
                     /\ ~EscapedAt(content, p)
                     /\ ~OddBackticksBefore(content, p)

\* C25 amended: no single-dollar span opens at a dollar that follows a
\* backslash or that has an odd number of backticks before it in the text in
\* which the spans to its left are already replaced by their tokens; the
\* example texts yield no span, and the mixed one exactly one.
C25_OpenersInScannedText ==
    (lastOp = "protect" /\ ~Falsy(content))
        => /\ ExampleSpans
           /\ \A i \in DollarSpans :
                 LET q == IndexOf(protected, mathMap[i].key, 0)
                     p == OpenerPosition(mathMap[i])
                 IN  /\ Substring(content, p, p + 1) = Chars("$")
                     /\ ~EscapedAt(content, p)
                     /\ ~EscapedAt(protected, q)
                     /\ ~OddBackticksBefore(protected, q)

C25_Witness ==
    /\ lastOp = "protect"
    /\ content = MathAndCode
    /\ DollarSpans = {1}
    /\ \E p \in 1..Len(content) :
           /\ content[p] = "$"
           /\ OddBackticksBefore(content, p - 1)

\* the closing delimiter and the display flag of the kind with the opener left
KindRight(left) ==
    IF left = Chars("$$") THEN Chars("$$")
    ELSE IF left = Chars("\\[") THEN Chars("\\]")
    ELSE IF left = Chars("\\(") THEN Chars("\\)")
    ELSE Chars("$")
KindDisplay(left) == left \in {Chars("$$"), Chars("\\[")}

\* some character of the text is not white space
HasInk(text) == \E i \in 1..Len(text) : text[i] \notin SpaceChars

\* C27: every entry of the span table returned by protect has an inner
\* content that is not blank, an original that is the left delimiter, the
\* inner content and, unless the entry is pending, the right delimiter, and
\* the display flag of its delimiter kind.
C27_EntriesWellFormed ==
    lastOp = "protect"
        => \A i \in 1..Len(mathMap) :
              LET e == mathMap[i]
                  left == e.delimiter.left
              IN  /\ left \in {Chars("$$"), Chars("\\["), Chars("\\("), Chars("$")}
                  /\ HasInk(e.innerContent)
                  /\ e.original = IF e.isPending
                                  THEN left \o e.innerContent
                                  ELSE left \o e.innerContent \o KindRight(left)
                  /\ e.display = KindDisplay(left)

C27_Witness ==
    /\ lastOp = "protect"
    /\ \E i, j \in 1..Len(mathMap) :
           /\ mathMap[i].isPending
           /\ mathMap[i].display
           /\ ~mathMap[j].isPending
           /\ ~mathMap[j].display

\* the text ends with a paragraph of its own that holds the span $y^2$
LastParagraph == Chars("\n\nThen $y^2$ holds.")
EndsWithSpanParagraph(text) ==
    /\ Len(text) >= Len(LastParagraph)
    /\ SubstringFrom(text, Len(text) - Len(LastParagraph)) = LastParagraph

\* C28: a single-dollar span that stands alone in the last paragraph of the
\* text is protected whatever the earlier paragraphs hold, an unterminated
\* single-dollar opener that is neither currency nor pending included.
C28_LaterParagraphProtected ==
    (lastOp = "protect" /\ ~Falsy(content) /\ EndsWithSpanParagraph(content))
        => \E i \in 1..Len(mathMap) :
              /\ mathMap[i].original = Chars("$y^2$")
              /\ ~mathMap[i].isPending
              /\ Includes(protected, mathMap[i].key)

\* the signatures that the complete spans of the table stand for: the left
\* delimiter followed by the hash of the inner content
SpanSignatures ==
    {mathMap[i].delimiter.left \o hashBase36(mathMap[i].innerContent) :
        i \in {j \in 1..Len(mathMap) : ~mathMap[j].isPending}}

\* C22: for every text, extractFormulaSignatures emits a signature for a
\* delimiter kind and an inner content exactly when protect on the same text
\* records a complete span of that kind and inner content; "cost $5 or
\* $50-$100 total $7" produces no signature.
C22_SignaturesAreSpans ==
    (lastOp = "protect" /\ ~Falsy(content))
        => /\ Range(extractFormulaSignatures(content)) = SpanSignatures
           /\ content = AmountsAroundRange => extractFormulaSignatures(content) = <<>>

(***************************************************************************)
(* Properties of looksLikeCurrency (specification ClassifySpec).           *)
(***************************************************************************)
\* the characters of the LaTeX rule: backslash, caret, underscore, braces
LatexMarkers == {"\\", "^", "_", "{", "}"}

HasLatexMarker(text) == \E i \in 1..Len(text) : text[i] \in LatexMarkers

\* C18: looksLikeCurrency returns currency for "50" and math for "x^2", and
\* math for every content that is not blank and holds a backslash, a caret,
\* an underscore or a curly brace, whatever the later rules would say.
C18_LatexRuleFirst ==
    verdict # "none"
        => /\ candidate = Chars("50") => verdict = "currency"
           /\ candidate = Chars("x^2") => verdict = "math"
           /\ (~IsBlank(candidate) /\ HasLatexMarker(candidate)) => verdict = "math"

C18_Witness ==
    /\ verdict = "math"
    /\ candidate = Chars("50_")
    /\ RegexTest(ReLatexSyntax, candidate)

\* the number of times the latest processChunk call invoked the in-place
\* backend: renderMath calls it once, when there is one
BackendInvocations == IF backend \in Outcomes THEN 1 ELSE 0

\* C23: when the chunk has no signature outside the seen set, processChunk
\* does not invoke the backend, raises rendersSkipped by one and returns
\* false; when it has one, the backend is invoked exactly once during the
\* call (renderMath is entered, and finds no backend to invoke when the
\* session has none).
C23_BackendOnlyForNew ==
    lastCall = "processChunk"
        => /\ NewSignatures = {}
                => /\ BackendInvocations = 0
                   /\ backend = "none"
                   /\ stats.rendersSkipped = pre.tracker.stats.rendersSkipped + 1
                   /\ ~returned
           /\ (NewSignatures # {} /\ renderFn) => BackendInvocations = 1
           /\ (NewSignatures # {} /\ ~renderFn) => backend = "absent"

C23_Witness ==
    /\ lastCall = "processChunk"
    /\ renderFn
    /\ extractFormulaSignatures(chunk) # <<>>
    /\ NewSignatures = {}
    /\ backend = "none"
    /\ pre.tracker.stats.rendersExecuted = 1

\* the counters of the statistics
Attempted == stats.rendersAttempted
Settled == stats.rendersSkipped + stats.rendersExecuted

\* C26 as stated: rendersAttempted is the number of processChunk calls since
\* construction or the last reset(), rendersSkipped + rendersExecuted is at
\* most rendersAttempted, and the two are equal exactly when every invocation
\* of the backend so far reported new rendering (a session without a backend
\* invokes none).
C26_StatsBalance ==
    /\ Attempted = processCalls
    /\ Settled <= Attempted
    /\ Settled = Attempted <=> (allRendered \/ ~renderFn)

\* C26 amended: rendersAttempted is the number of processChunk calls since
\* construction or the last reset(), rendersSkipped + rendersExecuted is at
\* most rendersAttempted, and the two are equal exactly when every
\* processChunk call so far that found a new signature had a backend to
\* invoke and that backend reported new rendering.
C26_StatsBalanceWithBackend ==
    /\ Attempted = processCalls
    /\ Settled <= Attempted
    /\ Settled = Attempted <=> allRendered

C26_Witness ==
    /\ lastCall = "processChunk"
    /\ renderFn
    /\ processCalls = 2
    /\ stats.rendersSkipped = 1
    /\ stats.rendersExecuted = 0
    /\ ~allRendered

(***************************************************************************)
(* Properties of the scan loops (specification ScanSpec).                  *)
(***************************************************************************)
\* the length of the text that the cursor has not passed
Remaining(s) == Len(s.result) - s.searchPos

\* an iteration leaves the loop, or leaves less text to scan than it found
\* and the cursor within the text
IterationProgress ==
    (scan'.kind = scan.kind /\ scan'.k = scan.k /\ scan'.steps = scan.steps + 1)
        => \/ scan'.done
           \/ /\ Remaining(scan') < Remaining(scan)
              /\ Remaining(scan') >= 0

\* C29: the scans of protect and of extractFormulaSignatures terminate: each
\* iteration of a delimiter's loop leaves the loop or moves the cursor so
\* that less text remains to be scanned, also when the token put in is
\* longer than the span taken out; the text that remains is never less than
\* nothing, so no loop runs for ever.
C29_ScansTerminate == [][IterationProgress]_vars

C29_Witness ==
    /\ scan.kind = "protect"
    /\ scan.steps > 0
    /\ ~scan.done
    /\ Len(scan.result) > scan.before.len
    /\ Remaining(scan) < scan.before.len - scan.before.searchPos

(***************************************************************************)
(* Properties of StreamRenderer (specification RendererSpec).              *)
(***************************************************************************)
\* C21: getContent() returns the text that the calls made so far determine:
\* the empty text after construction and after reset(), c after setContent(c)
\* (the empty text for an absent c), and the content before the call followed
\* by the chunk after appendContent(chunk); appendContent with an empty or
\* absent chunk returns false and leaves the content as it was; finalize()
\* leaves it as it was.
C21_ContentFollowsCalls ==
    /\ streamCall \in {"new", "reset"} => streamContent = <<>>
    /\ streamCall = "setContent"
          => streamContent = (IF Falsy(streamArg) THEN <<>> ELSE streamArg)
    /\ (streamCall = "appendContent" /\ Falsy(streamArg))
          => /\ streamContent = streamBefore
             /\ streamResult = "false"
    /\ (streamCall = "appendContent" /\ ~Falsy(streamArg))
          => streamContent = streamBefore \o streamArg
    /\ streamCall = "finalize" => streamContent = streamBefore

C21_Witness ==
    /\ streamCall = "appendContent"
    /\ streamBefore # <<>>
    /\ ~Falsy(streamArg)
    /\ streamContent = Chars("$x^2$")
    /\ streamResult = "true"

\* C30: for a StreamRenderer with a live target element, the content last
\* rendered into the target (the incremental renderer's lastContent) equals
\* getContent() after every call; setContent with an empty content after a
\* non-empty one leaves nothing of the old content recorded as rendered.
C30_RenderedIsContent ==
    targetElement = "element" => lastContent = streamContent

====
